---------------------------- MODULE Spec2Model ----------------------------
(***************************************************************************)
(* Model of the symbolic math engine of the AI Learning Hub server:        *)
(*   fraction.js  (gcd, lcm, class Fraction; its text is at the end of     *)
(*                 src/server/src/app.js)                                  *)
(*   parser.js    (Lexer, Parser, parseFraction, the classifier)           *)
(*   solver.js    (StepBuilder, simplifyFraction, evaluateArithmetic,      *)
(*                 solveLinearEquation, solve, canSolve)                   *)
(*                                                                         *)
(* Representation.                                                         *)
(*   - A JavaScript string is a sequence of atoms.  Every character that   *)
(*     comes from the input text or from the rendering of a number is one  *)
(*     atom of one character; a string literal of the source is kept as    *)
(*     one atom (for instance "Error: ").                                  *)
(*   - A JavaScript number held in a Fraction is an integer, or the value  *)
(*     NaN.  A number read by the lexer is a decimal [m, p] = m / 10^p.    *)
(*   - A call either returns, throws or does not terminate:                *)
(*     [kind |-> "ok", val |-> v], [kind |-> "throw", msg |-> m],          *)
(*     [kind |-> "hang"].                                                  *)
(*   - The latex fields of steps and results are rendering only (no        *)
(*     control flow depends on them) and are not modelled; nor is the raw  *)
(*     text of a token, which nothing reads.                               *)
(***************************************************************************)
EXTENDS Integers, Sequences, FiniteSets, TLC

VARIABLES
  gin, ga, gb, gout, lout, gpc,      \* gcd / lcm call: arguments, loop variables, results
  ctor, operand, acc, hist,          \* Fraction API: constructor arguments, operand, current object, calls made
  input, entry, pc, etype, outcome, lexed,  \* engine call: text, entry point, position, class, result
  calls,                             \* invocations of solve in progress, each with its own objects
  lexer                              \* a Lexer in its tokenize() loop: input, pos, tokens

vars == <<gin, ga, gb, gout, lout, gpc, ctor, operand, acc, hist, input, entry, pc, etype, outcome, lexed, calls, lexer>>

gcdVars == <<gin, ga, gb, gout, lout, gpc>>

fracVars == <<ctor, operand, acc, hist>>

engineVars == <<input, entry, pc, etype, outcome, lexed>>

callVars == <<calls, lexer>>

(***************************************************************************)
(* Bounds of the model.                                                    *)
(***************************************************************************)
MaxGcdArg == 6

MaxInt == 2

MaxExp == 2

MaxOps == 2

MaxMagnitude == 1000

MaxLexemes == 3

MaxSum == 2

MaxNumeral == 8

(***************************************************************************)
(* Outcomes of a call.                                                     *)
(***************************************************************************)
Ok(v) == [kind |-> "ok", val |-> v]

Throw(m) == [kind |-> "throw", msg |-> m]

Hang == [kind |-> "hang"]

None == [kind |-> "none"]

IsOk(r) == r.kind = "ok"

\* the rest of a function after a call: F of the outcome r when the call
\* returned; when it threw or did not terminate, so does the function
Then(r, F(_)) == IF r.kind = "ok" THEN F(r) ELSE r

(***************************************************************************)
(* JavaScript numbers.                                                     *)
(***************************************************************************)
NaN == 0 - 999999999

Infinity == 0 - (NaN + 1)

IsNaN(x) == x = NaN

JNeg(x) == IF IsNaN(x) THEN NaN ELSE 0 - x

JAbs(x) == IF IsNaN(x) THEN NaN ELSE IF x < 0 THEN 0 - x ELSE x

JAdd(x, y) == IF IsNaN(x) \/ IsNaN(y) THEN NaN ELSE x + y

JMul(x, y) == IF IsNaN(x) \/ IsNaN(y) THEN NaN ELSE x * y

JDiv(x, y) ==
  IF IsNaN(x) \/ IsNaN(y) THEN NaN
  ELSE IF y = 0 THEN (IF x = 0 THEN NaN ELSE IF x > 0 THEN Infinity ELSE 0 - Infinity)
  ELSE IF y < 0 THEN (0 - x) \div (0 - y)
  ELSE x \div y

RECURSIVE JPow(_, _)
JPow(b, e) == IF IsNaN(b) THEN NaN ELSE IF e = 0 THEN 1 ELSE b * JPow(b, e - 1)

(***************************************************************************)
(* Strings.                                                                *)
(***************************************************************************)
DigitChars == <<"0", "1", "2", "3", "4", "5", "6", "7", "8", "9">>

IsDigit(c) == c \in {"0", "1", "2", "3", "4", "5", "6", "7", "8", "9"}

DigitVal(c) == CHOOSE i \in 0..9 : DigitChars[i + 1] = c

LowerLetters == <<"a", "b", "c", "d", "e", "f", "g", "h", "i", "j", "k", "l", "m", "n", "o", "p", "q", "r", "s", "t", "u", "v", "w", "x", "y", "z">>

UpperLetters == <<"A", "B", "C", "D", "E", "F", "G", "H", "I", "J", "K", "L", "M", "N", "O", "P", "Q", "R", "S", "T", "U", "V", "W", "X", "Y", "Z">>

IsLower(c) == \E i \in 1..26 : LowerLetters[i] = c

IsUpper(c) == \E i \in 1..26 : UpperLetters[i] = c

IsLetter(c) == IsLower(c) \/ IsUpper(c)

ToLower(c) == IF IsUpper(c) THEN LowerLetters[CHOOSE i \in 1..26 : UpperLetters[i] = c] ELSE c

IsSpace(c) == c = " "

IsWordChar(c) == IsLetter(c) \/ IsDigit(c) \/ c = "_"

RECURSIVE NatToStr(_)
NatToStr(n) == IF n < 10 THEN <<DigitChars[n + 1]>> ELSE NatToStr(n \div 10) \o <<DigitChars[(n % 10) + 1]>>

NumToStr(x) == IF IsNaN(x) THEN <<"NaN">> ELSE IF x < 0 THEN <<"-">> \o NatToStr(0 - x) ELSE NatToStr(x)

RECURSIVE DigitsToNat(_)
DigitsToNat(s) == IF s = <<>> THEN 0 ELSE 10 * DigitsToNat(SubSeq(s, 1, Len(s) - 1)) + DigitVal(s[Len(s)])

ParseInt(s) == IF s[1] = "-" THEN 0 - DigitsToNat(Tail(s)) ELSE DigitsToNat(s)

RECURSIVE TrimLeft(_)
TrimLeft(s) == IF s # <<>> /\ IsSpace(s[1]) THEN TrimLeft(Tail(s)) ELSE s

RECURSIVE TrimRight(_)
TrimRight(s) == IF s # <<>> /\ IsSpace(s[Len(s)]) THEN TrimRight(SubSeq(s, 1, Len(s) - 1)) ELSE s

Trim(s) == TrimRight(TrimLeft(s))

(***************************************************************************)
(* fraction.js: gcd and lcm.                                               *)
(***************************************************************************)
RECURSIVE GcdLoop(_, _)
GcdLoop(a, b) == IF b = 0 THEN a ELSE GcdLoop(b, a % b)

\* gcd(a, b): the loop runs while b !== 0; NaN !== 0 and x % NaN is NaN, so
\* the loop never ends once b is NaN or a is NaN with b non-zero.
Gcd(a, b) ==
  LET a1 == JAbs(a)
      b1 == JAbs(b)
  IN IF b1 = 0 THEN Ok(a1)
     ELSE IF IsNaN(a1) \/ IsNaN(b1) THEN Hang
     ELSE Ok(GcdLoop(a1, b1))

LcmNoDivide(a, b) == Ok(JAbs(JMul(a, b)))

Lcm(a, b) ==
  LET g == Gcd(a, b)
  IN IF g.kind = "hang" THEN Hang ELSE Ok(JDiv(JAbs(JMul(a, b)), g.val))

(***************************************************************************)
(* fraction.js: class Fraction.                                            *)
(***************************************************************************)
Frac(n, d) == [numerator |-> n, denominator |-> d]

MsgDenominatorZero == <<"Division by zero: denominator cannot be 0">>

MsgReciprocalZero == <<"Cannot get reciprocal of zero">>

Simplify(num, den) ==
  LET g == Gcd(JAbs(num), den)
  IN IF g.kind = "hang" THEN Hang
     ELSE Ok(Frac(JDiv(num, g.val), JDiv(den, g.val)))

FractionInitKeepSign(num, den, autoSimplify) ==
  IF autoSimplify THEN Simplify(num, den) ELSE Ok(Frac(num, den))

\* constructor, after the zero test and Math.round: sign normalisation and
\* the optional reduction.
FractionInit(num, den, autoSimplify) ==
  LET neg == ~IsNaN(den) /\ den < 0
      n2 == IF neg THEN JNeg(num) ELSE num
      d2 == IF neg THEN JNeg(den) ELSE den
  IN IF autoSimplify THEN Simplify(n2, d2) ELSE Ok(Frac(n2, d2))

\* new Fraction(numerator, denominator, autoSimplify) on integer (or NaN)
\* arguments, on which Math.round is the identity.
NewFraction(n, d, autoSimplify) ==
  IF d = 0 THEN Throw(MsgDenominatorZero) ELSE FractionInit(n, d, autoSimplify)

\* Math.round of the decimal m / 10^p (m >= 0): floor(x + 1/2).
Pow10(p) == JPow(10, p)

MathRound(dec) == (2 * dec.m + Pow10(dec.p)) \div (2 * Pow10(dec.p))

\* new Fraction(num, denom) on the numbers the lexer read: the zero test
\* is made on the unrounded denominator.
NewFractionOfNumbers(numDec, denDec) ==
  IF denDec.m = 0 THEN Throw(MsgDenominatorZero)
  ELSE FractionInit(MathRound(numDec), MathRound(denDec), TRUE)

\* the decimal as value.toString() writes it: without trailing zeros
RECURSIVE Shortest(_)
Shortest(dec) ==
  IF dec.p > 0 /\ dec.m % 10 = 0 THEN Shortest([m |-> dec.m \div 10, p |-> dec.p - 1]) ELSE dec

\* Fraction.from(value) for a number: an integer over 1, otherwise the
\* digits of value.toString() over 10^decimalPlaces
FractionFrom(dec) ==
  LET value == Shortest(dec)
  IN IF value.p = 0 THEN NewFraction(value.m, 1, TRUE)
     ELSE NewFraction(MathRound([m |-> value.m, p |-> 0]), Pow10(value.p), TRUE)

IsZero(f) == f.numerator = 0

IsOne(f) == f.numerator = f.denominator

FAbs(f) == NewFraction(JAbs(f.numerator), f.denominator, TRUE)

FNegate(f) == NewFraction(JNeg(f.numerator), f.denominator, TRUE)

FReciprocalNoFlip(f) ==
  IF f.numerator = 0 THEN Throw(MsgReciprocalZero)
  ELSE NewFraction(f.numerator, f.denominator, TRUE)

FReciprocal(f) ==
  IF f.numerator = 0 THEN Throw(MsgReciprocalZero)
  ELSE NewFraction(f.denominator, f.numerator, TRUE)

\* an addition that adds the numerators over the receiver's denominator
FAddNumerators(f, other) == NewFraction(JAdd(f.numerator, other.numerator), f.denominator, TRUE)

FAdd(f, other) ==
  LET cd == Lcm(f.denominator, other.denominator)
  IN IF cd.kind = "hang" THEN Hang
     ELSE LET commonDenom == cd.val
              thisMultiplier == JDiv(commonDenom, f.denominator)
              otherMultiplier == JDiv(commonDenom, other.denominator)
          IN NewFraction(JAdd(JMul(f.numerator, thisMultiplier), JMul(other.numerator, otherMultiplier)),
                         commonDenom, TRUE)

\* a subtraction that adds
FSubtractAdds(f, other) == FAdd(f, other)

FSubtract(f, other) ==
  LET neg == FNegate(other)
  IN IF IsOk(neg) THEN FAdd(f, neg.val) ELSE neg

FMultiply(f, other) ==
  NewFraction(JMul(f.numerator, other.numerator), JMul(f.denominator, other.denominator), TRUE)

FDivide(f, other) ==
  IF IsZero(other) THEN Throw(<<"Division by zero">>)
  ELSE LET r == FReciprocal(other)
       IN IF IsOk(r) THEN FMultiply(f, r.val) ELSE r

\* toDecimal(): numerator / denominator, of which pow reads only whether it
\* is an integer and, if so, which.
ToDecimal(f) ==
  IF IsNaN(f.numerator) \/ IsNaN(f.denominator) \/ f.denominator = 0
  THEN [isInteger |-> FALSE, value |-> 0]
  ELSE IF f.numerator % f.denominator = 0
       THEN [isInteger |-> TRUE, value |-> f.numerator \div f.denominator]
       ELSE [isInteger |-> FALSE, value |-> 0]

IntExponent(e) == [isInteger |-> TRUE, value |-> e]

FPowPositive(f, e) == NewFraction(JPow(f.numerator, e), JPow(f.denominator, e), TRUE)

FPow(f, exponent) ==
  IF ~exponent.isInteger THEN Throw(<<"Exponent must be an integer">>)
  ELSE IF exponent.value = 0 THEN NewFraction(1, 1, TRUE)
  ELSE IF exponent.value < 0
       THEN LET r == FReciprocal(f)
            IN IF IsOk(r) THEN FPowPositive(r.val, 0 - exponent.value) ELSE r
  ELSE FPowPositive(f, exponent.value)

FEquals(f, other) == f.numerator = other.numerator /\ f.denominator = other.denominator

FClone(f) == NewFraction(f.numerator, f.denominator, TRUE)

\* a rendering that writes the denominator even when it is 1
FToStringAlwaysSlash(f) == NumToStr(f.numerator) \o <<"/">> \o NumToStr(f.denominator)

FToString(f) ==
  IF f.denominator = 1 THEN NumToStr(f.numerator)
  ELSE NumToStr(f.numerator) \o <<"/">> \o NumToStr(f.denominator)

(***************************************************************************)
(* Scanning helpers for the regular expressions of parser.js.              *)
(***************************************************************************)
\* the character at index i (from 1), or "" outside the string (undefined)
At(s, i) == IF i >= 1 /\ i <= Len(s) THEN s[i] ELSE ""

RECURSIVE SkipSpaces(_, _)
SkipSpaces(s, i) == IF i <= Len(s) /\ IsSpace(s[i]) THEN SkipSpaces(s, i + 1) ELSE i

RECURSIVE SkipDigits(_, _)
SkipDigits(s, i) == IF i <= Len(s) /\ IsDigit(s[i]) THEN SkipDigits(s, i + 1) ELSE i

RECURSIVE SkipNumberChars(_, _)
SkipNumberChars(s, i) == IF i <= Len(s) /\ (IsDigit(s[i]) \/ s[i] = ".") THEN SkipNumberChars(s, i + 1) ELSE i

RECURSIVE SkipLetters(_, _)
SkipLetters(s, i) == IF i <= Len(s) /\ IsLetter(s[i]) THEN SkipLetters(s, i + 1) ELSE i

LowerStr(s) == [k \in 1..Len(s) |-> ToLower(s[k])]

\* word w (lower case) stands at index i of s, compared case-insensitively
MatchWordAt(s, i, w) ==
  /\ i >= 1
  /\ i + Len(w) - 1 <= Len(s)
  /\ \A k \in 1..Len(w) : ToLower(s[i + k - 1]) = w[k]

\* \b between index i - 1 and index i
BoundaryAt(s, i) == IsWordChar(At(s, i - 1)) # IsWordChar(At(s, i))

\* the words the lexer and the regular expressions know, as sequences of characters
Words ==
  [plus |-> <<"p", "l", "u", "s">>,
   minus |-> <<"m", "i", "n", "u", "s">>,
   times |-> <<"t", "i", "m", "e", "s">>,
   multiplied |-> <<"m", "u", "l", "t", "i", "p", "l", "i", "e", "d">>,
   divided |-> <<"d", "i", "v", "i", "d", "e", "d">>,
   by |-> <<"b", "y">>,
   over |-> <<"o", "v", "e", "r">>,
   bar |-> <<"b", "a", "r">>,
   equals |-> <<"e", "q", "u", "a", "l", "s">>,
   equal |-> <<"e", "q", "u", "a", "l">>,
   is |-> <<"i", "s">>,
   squared |-> <<"s", "q", "u", "a", "r", "e", "d">>,
   cubed |-> <<"c", "u", "b", "e", "d">>]

(***************************************************************************)
(* parser.js: parseFraction.                                               *)
(***************************************************************************)
MsgCannotParseFraction(text) == <<"Cannot parse fraction from: \"">> \o text \o <<"\"">>

\* index after a match of -?\d+ at index i, or 0 when there is none
SignedIntEnd(s, i) ==
  LET d == IF At(s, i) = "-" THEN i + 1 ELSE i
  IN IF IsDigit(At(s, d)) THEN SkipDigits(s, d) ELSE 0

\* index after a match of \d+ at index i, or 0 when there is none
DigitsEnd(s, i) == IF IsDigit(At(s, i)) THEN SkipDigits(s, i) ELSE 0

\* /^(-?\d+)\s*\/\s*(\d+)$/ : <<numerator text, denominator text>> or <<>>
SlashMatch(str) ==
  LET e1 == SignedIntEnd(str, 1)
      sl == SkipSpaces(str, e1)
      d1 == SkipSpaces(str, sl + 1)
      e2 == DigitsEnd(str, d1)
  IN IF e1 # 0 /\ At(str, sl) = "/" /\ e2 = Len(str) + 1
     THEN <<SubSeq(str, 1, e1 - 1), SubSeq(str, d1, e2 - 1)>>
     ELSE <<>>

\* /^(-?\d+)\s+(?:over|bar)\s+(\d+)$/i
NaturalMatch(str) ==
  LET e1 == SignedIntEnd(str, 1)
      w1 == SkipSpaces(str, e1)
      wl == IF MatchWordAt(str, w1, Words.over) THEN 4 ELSE IF MatchWordAt(str, w1, Words.bar) THEN 3 ELSE 0
      d1 == SkipSpaces(str, w1 + wl)
      e2 == DigitsEnd(str, d1)
  IN IF e1 # 0 /\ w1 > e1 /\ wl # 0 /\ d1 > w1 + wl /\ e2 = Len(str) + 1
     THEN <<SubSeq(str, 1, e1 - 1), SubSeq(str, d1, e2 - 1)>>
     ELSE <<>>

\* /^(-?\d+)\s+(\d+)\s*\/\s*(\d+)$/
MixedMatch(str) ==
  LET e1 == SignedIntEnd(str, 1)
      n1 == SkipSpaces(str, e1)
      e2 == DigitsEnd(str, n1)
      sl == SkipSpaces(str, e2)
      d1 == SkipSpaces(str, sl + 1)
      e3 == DigitsEnd(str, d1)
  IN IF e1 # 0 /\ n1 > e1 /\ e2 # 0 /\ At(str, sl) = "/" /\ e3 = Len(str) + 1
     THEN <<SubSeq(str, 1, e1 - 1), SubSeq(str, n1, e2 - 1), SubSeq(str, d1, e3 - 1)>>
     ELSE <<>>

\* /^(-?\d+)$/
IntMatch(str) ==
  LET e1 == SignedIntEnd(str, 1)
  IN IF e1 # 0 /\ e1 = Len(str) + 1 THEN <<str>> ELSE <<>>

ParseFraction(text) ==
  LET str == Trim(text)
      slashMatch == SlashMatch(str)
      naturalMatch == NaturalMatch(str)
      mixedMatch == MixedMatch(str)
      intMatch == IntMatch(str)
  IN IF slashMatch # <<>> THEN NewFraction(ParseInt(slashMatch[1]), ParseInt(slashMatch[2]), TRUE)
     ELSE IF naturalMatch # <<>> THEN NewFraction(ParseInt(naturalMatch[1]), ParseInt(naturalMatch[2]), TRUE)
     ELSE IF mixedMatch # <<>>
          THEN LET whole == ParseInt(mixedMatch[1])
                   num == ParseInt(mixedMatch[2])
                   denom == ParseInt(mixedMatch[3])
                   sign == IF whole < 0 THEN 0 - 1 ELSE 1
               IN NewFraction(sign * (JAbs(whole) * denom + num), denom, TRUE)
     ELSE IF intMatch # <<>> THEN NewFraction(ParseInt(intMatch[1]), 1, TRUE)
     ELSE Throw(MsgCannotParseFraction(text))

(***************************************************************************)
(* parser.js: the classifier.                                              *)
(***************************************************************************)
\* /\bequals?\b/i
HasEqualsWord(s) ==
  \E i \in 1..Len(s) :
    /\ MatchWordAt(s, i, Words.equal)
    /\ BoundaryAt(s, i)
    /\ \/ BoundaryAt(s, i + 5)
       \/ ToLower(At(s, i + 5)) = "s" /\ BoundaryAt(s, i + 6)

\* /\bis\b.*\d/i
HasIsBeforeDigit(s) ==
  \E i \in 1..Len(s) :
    /\ MatchWordAt(s, i, Words.is)
    /\ BoundaryAt(s, i)
    /\ BoundaryAt(s, i + 2)
    /\ \E k \in (i + 2)..Len(s) : IsDigit(s[k])

IsEquation(s) ==
  \/ \E i \in 1..Len(s) : s[i] = "="
  \/ HasEqualsWord(s)
  \/ HasIsBeforeDigit(s)

\* /\d+\s*\/\s*\d+/
HasSlashFraction(s) ==
  \E i \in 1..Len(s) :
    /\ IsDigit(s[i])
    /\ LET sl == SkipSpaces(s, i + 1)
       IN At(s, sl) = "/" /\ IsDigit(At(s, SkipSpaces(s, sl + 1)))

\* /\d+\s+(?:over|bar)\s+\d+/i
HasNaturalFraction(s) ==
  \E i \in 1..Len(s) :
    /\ IsDigit(s[i])
    /\ IsSpace(At(s, i + 1))
    /\ LET w == SkipSpaces(s, i + 1)
           wl == IF MatchWordAt(s, w, Words.over) THEN 4 ELSE IF MatchWordAt(s, w, Words.bar) THEN 3 ELSE 0
       IN wl # 0 /\ IsSpace(At(s, w + wl)) /\ IsDigit(At(s, SkipSpaces(s, w + wl)))

\* /\d+\s+\d+\s*\/\s*\d+/
HasMixedNumber(s) ==
  \E i \in 1..Len(s) :
    /\ IsDigit(s[i])
    /\ IsSpace(At(s, i + 1))
    /\ LET n == SkipSpaces(s, i + 1)
           sl == SkipSpaces(s, SkipDigits(s, n))
       IN IsDigit(At(s, n)) /\ At(s, sl) = "/" /\ IsDigit(At(s, SkipSpaces(s, sl + 1)))

IsFractionExpression(s) == HasSlashFraction(s) \/ HasNaturalFraction(s) \/ HasMixedNumber(s)

\* the character class [\d\s+\-*×÷/^()]
IsArithmeticChar(c) ==
  IsDigit(c) \/ IsSpace(c) \/ c \in {"+", "-", "*", "U+00D7", "U+00F7", "/", "^", "(", ")"}

OperatorWords == <<Words.plus, Words.minus, Words.times, Words.divided, Words.over, Words.bar>>

EquationWords == <<Words.plus, Words.minus, Words.times, Words.divided, Words.over, Words.bar, Words.equals, Words.equal, Words.is>>

\* /\d+\s*(?:plus|minus|times|divided|over|bar)\s*\d+/i
HasWordOperation(s) ==
  \E i \in 1..Len(s) :
    /\ IsDigit(s[i])
    /\ LET w == SkipSpaces(s, i + 1)
       IN \E k \in 1..Len(OperatorWords) :
            /\ MatchWordAt(s, w, OperatorWords[k])
            /\ IsDigit(At(s, SkipSpaces(s, w + Len(OperatorWords[k]))))

IsArithmeticExpression(s) ==
  \/ \E i \in 1..Len(s) : IsArithmeticChar(s[i])
  \/ HasWordOperation(s)

\* length of the first word of ws (in order) that stands at index i, or 0
WordLenAt(s, i, ws) ==
  LET hits == {k \in 1..Len(ws) : MatchWordAt(s, i, ws[k])}
  IN IF hits = {} THEN 0
     ELSE Len(ws[CHOOSE k \in hits : \A j \in hits : k <= j])

\* s.replace(/(?:w1|w2|...)/gi, '') from index i on
RECURSIVE StripWords(_, _, _)
StripWords(s, i, ws) ==
  IF i > Len(s) THEN <<>>
  ELSE LET n == WordLenAt(s, i, ws)
       IN IF n > 0 THEN StripWords(s, i + n, ws)
          ELSE <<s[i]>> \o StripWords(s, i + 1, ws)

HasLetter(s) == \E i \in 1..Len(s) : IsLetter(s[i])

DetectExpressionType(text) ==
  LET trimmed == Trim(text)
  IN IF IsEquation(trimmed)
     THEN (IF HasLetter(StripWords(trimmed, 1, EquationWords)) THEN "algebraic_equation" ELSE "arithmetic_equation")
     ELSE IF IsFractionExpression(trimmed) THEN "fraction"
     ELSE IF IsArithmeticExpression(trimmed)
          THEN (IF HasLetter(StripWords(trimmed, 1, OperatorWords)) THEN "algebraic_expression" ELSE "arithmetic")
     ELSE "unknown"

(***************************************************************************)
(* parser.js: Lexer.                                                       *)
(***************************************************************************)
Tok(type, value) == [type |-> type, value |-> value]

\* parseFloat of a run of digits and dots that starts with a digit: the
\* longest prefix digits [. digits] as the decimal m / 10^p
ParseFloat(num) ==
  LET i1 == SkipDigits(num, 1)
      e == IF At(num, i1) = "." THEN SkipDigits(num, i1 + 1) ELSE i1
      fracPart == IF e > i1 THEN SubSeq(num, i1 + 1, e - 1) ELSE <<>>
  IN [m |-> DigitsToNat(SubSeq(num, 1, i1 - 1) \o fracPart), p |-> Len(fracPart)]

\* the tokens pushed for the word that was read, and the index where the
\* scan goes on (e is the index after the word)
WordTokens(s, word, e) ==
  LET e2 == SkipLetters(s, SkipSpaces(s, e))
  IN IF word = Words.divided THEN [toks |-> <<Tok("OPERATOR", "/")>>, next |-> e2]
     ELSE IF word = Words.over \/ word = Words.bar THEN [toks |-> <<Tok("OPERATOR", "/")>>, next |-> e]
     ELSE IF word = Words.plus THEN [toks |-> <<Tok("OPERATOR", "+")>>, next |-> e]
     ELSE IF word = Words.minus THEN [toks |-> <<Tok("OPERATOR", "-")>>, next |-> e]
     ELSE IF word = Words.multiplied THEN [toks |-> <<Tok("OPERATOR", "*")>>, next |-> e2]
     ELSE IF word = Words.times THEN [toks |-> <<Tok("OPERATOR", "*")>>, next |-> e]
     ELSE IF word = Words.equals \/ word = Words.is THEN [toks |-> <<Tok("EQUALS", "=")>>, next |-> e]
     ELSE IF word = Words.squared THEN [toks |-> <<Tok("OPERATOR", "^"), Tok("NUMBER", Frac(2, 1))>>, next |-> e]
     ELSE IF word = Words.cubed THEN [toks |-> <<Tok("OPERATOR", "^"), Tok("NUMBER", Frac(3, 1))>>, next |-> e]
     ELSE [toks |-> <<Tok("VARIABLE", word)>>, next |-> e]

\* the token of a one-character symbol, or <<>> for a character that is skipped
SymbolTokens(c) ==
  IF c = "+" THEN <<Tok("OPERATOR", "+")>>
  ELSE IF c = "-" THEN <<Tok("OPERATOR", "-")>>
  ELSE IF c = "*" \/ c = "U+00D7" \/ c = "U+00B7" THEN <<Tok("OPERATOR", "*")>>
  ELSE IF c = "U+00F7" THEN <<Tok("OPERATOR", "/")>>
  ELSE IF c = "/" THEN <<Tok("OPERATOR", "/")>>
  ELSE IF c = "^" THEN <<Tok("POWER", "^")>>
  ELSE IF c = "=" THEN <<Tok("EQUALS", "=")>>
  ELSE IF c = "(" THEN <<Tok("LPAREN", "(")>>
  ELSE IF c = ")" THEN <<Tok("RPAREN", ")")>>
  ELSE <<>>

\* the tokens one iteration pushes and the index it leaves the lexer at
Lexed(toks, next) == Ok([toks |-> toks, next |-> next])

\* an iteration that does not advance
LexIterationStuck(s, pos) == Lexed(<<>>, pos)

\* one iteration of the while loop of tokenize(), entered at index pos
LexIteration(s, pos) ==
  LET p == SkipSpaces(s, pos)
  IN IF p > Len(s) THEN Lexed(<<>>, p)
     ELSE IF IsDigit(s[p])
          THEN LET e == SkipNumberChars(s, p)
                   num == ParseFloat(SubSeq(s, p, e - 1))
                   sl == SkipSpaces(s, e)
                   d == SkipSpaces(s, sl + 1)
                   number == NewFractionOfNumbers(num, [m |-> 1, p |-> 0])
               IN IF At(s, sl) = "/"
                  THEN IF IsDigit(At(s, d))
                       THEN LET e2 == SkipNumberChars(s, d)
                                denom == ParseFloat(SubSeq(s, d, e2 - 1))
                                f == NewFractionOfNumbers(num, denom)
                            IN IF IsOk(f) THEN Lexed(<<Tok("FRACTION", f.val)>>, e2) ELSE f
                       ELSE IF IsOk(number)
                            THEN Lexed(<<Tok("NUMBER", number.val), Tok("OPERATOR", "/")>>, d)
                            ELSE number
                  ELSE IF IsOk(number) THEN Lexed(<<Tok("NUMBER", number.val)>>, sl) ELSE number
     ELSE IF IsLetter(s[p])
          THEN LET e == SkipLetters(s, p)
                   w == WordTokens(s, LowerStr(SubSeq(s, p, e - 1)), e)
               IN Lexed(w.toks, w.next)
     ELSE Lexed(SymbolTokens(s[p]), p + 1)

\* the loop of tokenize(), from index pos with the tokens pushed so far
RECURSIVE LexFrom(_, _, _)
LexFrom(s, pos, toks) ==
  IF pos > Len(s) THEN Ok(Append(toks, Tok("EOF", "null")))
  ELSE Then(LexIteration(s, pos), LAMBDA it : LexFrom(s, it.val.next, toks \o it.val.toks))

\* new Lexer(input).tokenize()
Tokenize(text) == LexFrom(Trim(text), 1, <<>>)

(***************************************************************************)
(* parser.js: Parser.  A parse function returns [node, pos]: the node it   *)
(* built and the index of the next token.                                  *)
(***************************************************************************)
NumberNode(v) == [type |-> "Number", value |-> v]

VariableNode(n) == [type |-> "Variable", name |-> n]

UnaryOp(op, e) == [type |-> "UnaryOp", operator |-> op, operand |-> e]

BinaryOp(op, l, r) == [type |-> "BinaryOp", operator |-> op, left |-> l, right |-> r]

EquationNode(l, r) == [type |-> "Equation", left |-> l, right |-> r]

At2(n, p) == [node |-> n, pos |-> p]

MsgExpected(type, got) == <<"Expected ", type, " but got ", got>>

MsgUnexpected(type) == <<"Unexpected token: ", type>>

IsOperator(token, ops) == token.type = "OPERATOR" /\ token.value \in ops

RECURSIVE ParseExpression(_, _), ExpressionLoop(_, _, _), ParseTerm(_, _), TermLoop(_, _, _)
RECURSIVE ParseFactor(_, _), ImplicitLoop(_, _, _), ParsePrimary(_, _)

ParsePrimary(toks, pos) ==
  LET token == toks[pos]
  IN IF IsOperator(token, {"-"})
     THEN Then(ParsePrimary(toks, pos + 1),
               LAMBDA expr : Ok(At2(UnaryOp("-", expr.val.node), expr.val.pos)))
     ELSE IF token.type = "NUMBER" \/ token.type = "FRACTION"
          THEN Ok(At2(NumberNode(token.value), pos + 1))
     ELSE IF token.type = "VARIABLE"
          THEN Ok(At2(VariableNode(token.value), pos + 1))
     ELSE IF token.type = "LPAREN"
          THEN Then(ParseExpression(toks, pos + 1),
                    LAMBDA expr : IF toks[expr.val.pos].type # "RPAREN"
                                  THEN Throw(MsgExpected("RPAREN", toks[expr.val.pos].type))
                                  ELSE Ok(At2(expr.val.node, expr.val.pos + 1)))
     ELSE Throw(MsgUnexpected(token.type))

\* the while loop of parseFactor: implicit multiplication
ImplicitLoop(toks, left, pos) ==
  IF \/ toks[pos].type = "VARIABLE"
     \/ toks[pos].type = "NUMBER" /\ left.type = "Variable"
     \/ toks[pos].type = "LPAREN"
  THEN Then(ParsePrimary(toks, pos),
            LAMBDA right : ImplicitLoop(toks, BinaryOp("*", left, right.val.node), right.val.pos))
  ELSE Ok(At2(left, pos))

ParseFactor(toks, pos) ==
  Then(ParsePrimary(toks, pos),
       LAMBDA left :
         IF toks[left.val.pos].type = "POWER"
         THEN Then(ParseFactor(toks, left.val.pos + 1),
                   LAMBDA right : ImplicitLoop(toks, BinaryOp("^", left.val.node, right.val.node),
                                               right.val.pos))
         ELSE ImplicitLoop(toks, left.val.node, left.val.pos))

\* the while loop of parseTerm
TermLoop(toks, left, pos) ==
  IF IsOperator(toks[pos], {"*", "/"})
  THEN Then(ParseFactor(toks, pos + 1),
            LAMBDA right : TermLoop(toks, BinaryOp(toks[pos].value, left, right.val.node), right.val.pos))
  ELSE Ok(At2(left, pos))

ParseTerm(toks, pos) ==
  Then(ParseFactor(toks, pos), LAMBDA left : TermLoop(toks, left.val.node, left.val.pos))

\* the while loop of parseExpression
ExpressionLoop(toks, left, pos) ==
  IF IsOperator(toks[pos], {"+", "-"})
  THEN Then(ParseTerm(toks, pos + 1),
            LAMBDA right : ExpressionLoop(toks, BinaryOp(toks[pos].value, left, right.val.node),
                                          right.val.pos))
  ELSE Ok(At2(left, pos))

ParseExpression(toks, pos) ==
  Then(ParseTerm(toks, pos), LAMBDA left : ExpressionLoop(toks, left.val.node, left.val.pos))

ParseEquation(toks, pos) ==
  Then(ParseExpression(toks, pos),
       LAMBDA left :
         IF toks[left.val.pos].type = "EQUALS"
         THEN Then(ParseExpression(toks, left.val.pos + 1),
                   LAMBDA right : Ok(At2(EquationNode(left.val.node, right.val.node), right.val.pos)))
         ELSE left)

\* parse(input): the AST of the text; what follows the parsed node is not read
\* new Parser(tokens).parse()
ParseTokens(toks) == Then(ParseEquation(toks, 1), LAMBDA ast : Ok(ast.val.node))

Parse(text) == Then(Tokenize(text), LAMBDA tokens : ParseTokens(tokens.val))

(***************************************************************************)
(* solver.js: StepBuilder.                                                 *)
(***************************************************************************)
\* a builder that numbers its steps from 0
AddStepFromZero(steps, description) ==
  Append(steps, [description |-> description, stepNumber |-> Len(steps)])

\* a builder that puts the new step in front of the others
AddStepInFront(steps, description) ==
  <<[description |-> description, stepNumber |-> Len(steps) + 1]>> \o steps

AddStep(steps, description) ==
  Append(steps, [description |-> description, stepNumber |-> Len(steps) + 1])

Build(question, steps, result) ==
  [question |-> question, steps |-> steps, result |-> [value |-> result]]

\* a catch block that would discard the steps recorded before the failure
ErrorSolutionDropSteps(question, steps, msg) ==
  Build(question, AddStep(<<>>, <<"Error: ">> \o msg), <<"Error">>)

\* the catch blocks: steps.addStep(`Error: ${error.message}`); return steps.build('Error', 'Error')
ErrorSolution(question, steps, msg) ==
  Build(question, AddStep(steps, <<"Error: ">> \o msg), <<"Error">>)

(***************************************************************************)
(* solver.js: simplifyFraction.                                            *)
(***************************************************************************)
GcdText(n, d, g) ==
  <<"gcd(">> \o NumToStr(JAbs(n)) \o <<", ">> \o NumToStr(d) \o <<") = ">> \o NumToStr(g)

\* the body of simplifyFraction once the question and the Fraction are known
\* steps is the content of the builder that was created for the call
SimplifyStepsFrom(question, steps, fracResult) ==
  IF ~IsOk(fracResult) THEN fracResult
  ELSE LET frac == fracResult.val
           originalNum == frac.numerator
           originalDenom == frac.denominator
           s1 == AddStep(steps, <<"Create Fraction(">> \o NumToStr(originalNum) \o <<", ">>
                                 \o NumToStr(originalDenom) \o <<")">>)
           g == Gcd(JAbs(originalNum), originalDenom)
       IN IF ~IsOk(g) THEN g
          ELSE IF g.val = 1
               THEN Ok(Build(question,
                             AddStep(AddStep(s1, GcdText(originalNum, originalDenom, 1)),
                                     <<"Fraction is already in lowest terms">>),
                             FToString(frac)))
          ELSE LET divisor == g.val
                   s2 == AddStep(s1, GcdText(originalNum, originalDenom, divisor))
                   simplifiedNum == JDiv(originalNum, divisor)
                   simplifiedDenom == JDiv(originalDenom, divisor)
                   s3 == AddStep(s2, <<"Divide numerator and denominator by ">> \o NumToStr(divisor))
                   simplified == NewFraction(simplifiedNum, simplifiedDenom, TRUE)
               IN IF ~IsOk(simplified) THEN simplified
                  ELSE IF simplifiedDenom = 1
                       THEN Ok(Build(question,
                                     AddStep(s3, <<"Simplified to ">> \o NumToStr(simplifiedNum)),
                                     NumToStr(simplifiedNum)))
                  ELSE Ok(Build(question,
                                AddStep(s3, <<"Simplified to ">> \o FToString(simplified.val)),
                                FToString(simplified.val)))

SimplifySteps(question, fracResult) == SimplifyStepsFrom(question, <<>>, fracResult)

\* simplifyFraction(input) for a string
SimplifyFraction(text) == SimplifySteps(text, ParseFraction(text))

\* simplifyFraction(input) for a Fraction
SimplifyFractionObject(f) == SimplifySteps(FToString(f), FClone(f))

(***************************************************************************)
(* solver.js: evaluateArithmetic.                                          *)
(***************************************************************************)
EOk(v, steps) == [kind |-> "ok", val |-> v, steps |-> steps]

EThrow(m, steps) == [kind |-> "throw", msg |-> m, steps |-> steps]

OpName(op) ==
  IF op = "+" THEN "Add"
  ELSE IF op = "-" THEN "Subtract"
  ELSE IF op = "*" THEN "Multiply"
  ELSE IF op = "/" THEN "Divide"
  ELSE "Power"

\* the switch over node.operator of evaluateNode and evaluateWithSteps
ApplyOperator(op, left, right) ==
  IF op = "+" THEN FAdd(left, right)
  ELSE IF op = "-" THEN FSubtract(left, right)
  ELSE IF op = "*" THEN FMultiply(left, right)
  ELSE IF op = "/" THEN FDivide(left, right)
  ELSE FPow(left, ToDecimal(right))

MsgCannotEvaluate(type) == <<"Cannot evaluate node type: ", type>>

\* the outcome of a Fraction method inside evaluateWithSteps: a throw leaves
\* the builder with the steps recorded so far
WithSteps(result, steps) ==
  IF result.kind = "hang" THEN Hang
  ELSE IF result.kind = "throw" THEN EThrow(result.msg, steps)
  ELSE EOk(result.val, steps)

\* evaluateWithSteps(node): the value, and the steps of the builder after the call
RECURSIVE EvaluateWithSteps(_, _)
EvaluateWithSteps(node, steps) ==
  IF node.type = "Number" THEN EOk(node.value, steps)
  ELSE IF node.type = "BinaryOp"
       THEN Then(EvaluateWithSteps(node.left, steps), LAMBDA left :
            Then(EvaluateWithSteps(node.right, left.steps), LAMBDA right :
            Then(WithSteps(ApplyOperator(node.operator, left.val, right.val), right.steps), LAMBDA result :
                 EOk(result.val,
                     AddStep(right.steps,
                             <<OpName(node.operator), ": ">> \o FToString(left.val)
                             \o <<" ", node.operator, " ">> \o FToString(right.val)
                             \o <<" = ">> \o FToString(result.val))))))
  ELSE IF node.type = "UnaryOp" /\ node.operator = "-"
       THEN Then(EvaluateWithSteps(node.operand, steps), LAMBDA inner :
                 WithSteps(FNegate(inner.val), inner.steps))
  ELSE EThrow(MsgCannotEvaluate(node.type), steps)

\* catch (error) { steps.addStep(`Error: ${error.message}`); return steps.build('Error', 'Error') }
\* for a call that threw: steps are the builder's steps at the throw (those
\* the outcome carries, when it carries them); a call that does not
\* terminate is not caught
Caught(question, steps, r) ==
  IF r.kind = "hang" THEN Hang
  ELSE Ok(ErrorSolution(question, IF "steps" \in DOMAIN r THEN r.steps ELSE steps, r.msg))

\* try { const x = <call>; F(x) } catch (error) { ... }
Try(question, steps, r, F(_)) == IF r.kind = "ok" THEN F(r) ELSE Caught(question, steps, r)

\* evaluateArithmetic after steps.addStep('Parse expression'): s1 is the
\* content of the builder, ast the parsed tree
EvaluateAst(text, s1, ast) ==
  IF ast.type = "Number"
  THEN IF ast.value.denominator # 1
       THEN Try(text, s1, SimplifyFractionObject(ast.value), LAMBDA solution : solution)
       ELSE Ok(Build(text, s1, FToString(ast.value)))
  ELSE Try(text, s1, EvaluateWithSteps(ast, s1), LAMBDA result :
       Try(text, result.steps, NewFraction(result.val.numerator, result.val.denominator, TRUE),
           LAMBDA finalSimplified : Ok(Build(text, result.steps, FToString(finalSimplified.val)))))

EvaluateArithmetic(text) ==
  Try(text, <<>>, Parse(text), LAMBDA ast :
      EvaluateAst(text, AddStep(<<>>, <<"Parse expression">>), ast.val))

(***************************************************************************)
(* solver.js: evaluateNode, collectTerms, solveLinearEquation.             *)
(***************************************************************************)
\* evaluateNode(node) with no variable bound
RECURSIVE EvaluateNode(_)
EvaluateNode(node) ==
  IF node.type = "Number" THEN Ok(node.value)
  ELSE IF node.type = "Variable" THEN Throw(<<"Unknown variable: ">> \o node.name)
  ELSE IF node.type = "UnaryOp"
       THEN Then(EvaluateNode(node.operand), LAMBDA inner :
                 IF node.operator = "-" THEN FNegate(inner.val) ELSE inner)
  ELSE IF node.type = "BinaryOp"
       THEN Then(EvaluateNode(node.left), LAMBDA left :
            Then(EvaluateNode(node.right), LAMBDA right :
                 ApplyOperator(node.operator, left.val, right.val)))
  ELSE Throw(<<"Unknown node type: ", node.type>>)

\* evaluateNode(node, variables): variables maps names to Fractions
RECURSIVE EvaluateNodeIn(_, _)
EvaluateNodeIn(node, variables) ==
  IF node.type = "Number" THEN Ok(node.value)
  ELSE IF node.type = "Variable"
       THEN IF node.name \in DOMAIN variables THEN Ok(variables[node.name])
            ELSE Throw(<<"Unknown variable: ">> \o node.name)
  ELSE IF node.type = "UnaryOp"
       THEN Then(EvaluateNodeIn(node.operand, variables), LAMBDA inner :
                 IF node.operator = "-" THEN FNegate(inner.val) ELSE inner)
  ELSE IF node.type = "BinaryOp"
       THEN Then(EvaluateNodeIn(node.left, variables), LAMBDA left :
            Then(EvaluateNodeIn(node.right, variables), LAMBDA right :
                 ApplyOperator(node.operator, left.val, right.val)))
  ELSE Throw(<<"Unknown node type: ", node.type>>)

\* terms: the constant and the coefficient of each variable name met so far.
\* (The source keeps both in one object, so that a variable named
\* "constant" would share the constant's slot; no such name is in the bounds.)
\* terms.constant = terms.constant.add(val.multiply(new Fraction(sign, 1)))
AddConstant(terms, val, sign) ==
  Then(FMultiply(val, Frac(sign, 1)), LAMBDA product :
  Then(FAdd(terms.constant, product.val), LAMBDA sum :
       Ok([terms EXCEPT !.constant = sum.val])))

\* terms[name] = (terms[name] or 0).add(addend)
AddCoefficient(terms, name, addend) ==
  Then(addend, LAMBDA coef :
  Then(FAdd(IF name \in DOMAIN terms.coefs THEN terms.coefs[name] ELSE Frac(0, 1), coef.val), LAMBDA sum :
       Ok([terms EXCEPT !.coefs =
             [k \in (DOMAIN terms.coefs) \cup {name} |-> IF k = name THEN sum.val ELSE terms.coefs[k]]])))

\* try { ... } catch (e) { }: a throw leaves the terms as they were
Swallow(terms, r) == IF r.kind = "throw" THEN Ok(terms) ELSE r

\* try { terms.constant = terms.constant.add(evaluateNode(n)...) } catch (e) {}
TryConstant(terms, n, sign) ==
  Swallow(terms, Then(EvaluateNode(n), LAMBDA val : AddConstant(terms, val.val, sign)))

RECURSIVE CollectFromNode(_, _, _)
CollectFromNode(n, sign, terms) ==
  IF n.type = "Number" THEN AddConstant(terms, n.value, sign)
  ELSE IF n.type = "Variable" THEN AddCoefficient(terms, n.name, Ok(Frac(sign, 1)))
  ELSE IF n.type = "BinaryOp"
       THEN IF n.operator = "+" \/ n.operator = "-"
            THEN Then(CollectFromNode(n.left, sign, terms), LAMBDA left :
                      CollectFromNode(n.right, IF n.operator = "+" THEN sign ELSE 0 - sign, left.val))
            ELSE IF n.operator = "*"
                 THEN IF n.left.type = "Number" /\ n.right.type = "Variable"
                      THEN AddCoefficient(terms, n.right.name, FMultiply(n.left.value, Frac(sign, 1)))
                      ELSE IF n.right.type = "Number" /\ n.left.type = "Variable"
                           THEN AddCoefficient(terms, n.left.name, FMultiply(n.right.value, Frac(sign, 1)))
                           ELSE TryConstant(terms, n, sign)
            ELSE TryConstant(terms, n, sign)
  ELSE IF n.type = "UnaryOp" /\ n.operator = "-" THEN CollectFromNode(n.operand, 0 - sign, terms)
  ELSE Ok(terms)

CollectTerms(node) == CollectFromNode(node, 1, [constant |-> Frac(0, 1), coefs |-> <<>>])

\* toJSON() without the latex field
ToJSON(f) == [numerator |-> f.numerator, denominator |-> f.denominator, string |-> FToString(f)]

\* solveLinearEquation from the collected terms on
SolveCollected(text, s1, leftTerms, rightTerms) ==
  LET allVars == (DOMAIN leftTerms.coefs) \cup (DOMAIN rightTerms.coefs)
  IN IF Cardinality(allVars) = 0 THEN Ok(ErrorSolution(text, s1, <<"No variable found in equation">>))
     ELSE IF Cardinality(allVars) > 1 THEN Ok(ErrorSolution(text, s1, <<"Multiple variables found - only single variable equations supported">>))
     ELSE LET variable == CHOOSE v \in allVars : TRUE
              leftCoef == IF variable \in DOMAIN leftTerms.coefs THEN leftTerms.coefs[variable] ELSE Frac(0, 1)
              rightCoef == IF variable \in DOMAIN rightTerms.coefs THEN rightTerms.coefs[variable] ELSE Frac(0, 1)
              leftConst == leftTerms.constant
              rightConst == rightTerms.constant
              s2 == IF ~IsZero(rightCoef)
                    THEN AddStep(s1, <<"Subtract ">> \o FToString(rightCoef) \o variable \o <<" from both sides">>)
                    ELSE s1
              s3 == IF ~IsZero(leftConst)
                    THEN AddStep(s2, <<"Subtract ">> \o FToString(leftConst) \o <<" from both sides">>)
                    ELSE s2
          IN Try(text, s1, FSubtract(leftCoef, rightCoef), LAMBDA varCoef :
             Try(text, s1, FSubtract(rightConst, leftConst), LAMBDA constTerm :
               IF IsZero(varCoef.val)
               THEN IF IsZero(constTerm.val)
                    THEN Ok(Build(text, AddStep(s3, <<"Equation is always true (infinite solutions)">>),
                                  <<"infinite solutions">>))
                    ELSE Ok(Build(text, AddStep(s3, <<"Equation has no solution">>), <<"no solution">>))
               ELSE Try(text, s3, FDivide(constTerm.val, varCoef.val), LAMBDA solution :
                      LET s4 == IF ~IsOne(varCoef.val)
                                THEN AddStep(s3, <<"Divide both sides by ">> \o FToString(varCoef.val))
                                ELSE s3
                          value == variable \o <<" = ">> \o FToString(solution.val)
                          s5 == AddStep(s4, <<"Solution: ">> \o value)
                      IN Ok([question |-> text, steps |-> s5, result |-> [value |-> value],
                             variable |-> variable, solution |-> ToJSON(solution.val)]))))

\* solveLinearEquation after steps.addStep('Parse equation'): s1 is the
\* content of the builder, ast the parsed Equation
SolveAst(text, s1, ast) ==
  Try(text, s1, CollectTerms(ast.left), LAMBDA leftTerms :
  Try(text, s1, CollectTerms(ast.right), LAMBDA rightTerms :
      SolveCollected(text, s1, leftTerms.val, rightTerms.val)))

SolveLinearEquation(text) ==
  Try(text, <<>>, Parse(text), LAMBDA ast :
      IF ast.val.type # "Equation" THEN Ok(ErrorSolution(text, <<>>, <<"Input is not an equation">>))
      ELSE SolveAst(text, AddStep(<<>>, <<"Parse equation">>), ast.val))

(***************************************************************************)
(* solver.js: addFractions and subtractFractions, called with Fractions.   *)
(***************************************************************************)
\* Math.round of the quotient num / den (den > 0): floor(x + 1/2)
RoundRatio(num, den) == (2 * num + den) \div (2 * den)

\* the steps of addFractions between the first step and the addition
CommonDenominatorSteps(s1, fracA, fracB) ==
  IF fracA.denominator = fracB.denominator
  THEN Ok(AddStep(s1, <<"Denominators are the same (">> \o NumToStr(fracA.denominator)
                      \o <<"), add numerators">>))
  ELSE Then(Gcd(fracA.denominator, fracB.denominator), LAMBDA g :
         LET lcmVal == JDiv(JMul(fracA.denominator, fracB.denominator), g.val)
             s2 == AddStep(s1, <<"Find common denominator: LCD(">> \o NumToStr(fracA.denominator)
                               \o <<", ">> \o NumToStr(fracB.denominator) \o <<") = ">> \o NumToStr(lcmVal))
             s3 == AddStep(s2, <<"Convert fractions to common denominator">>)
             s4 == AddStep(s3, <<"Simplify numerators">>)
         IN Ok(AddStep(s4, <<"Add numerators">>)))

AddFractions(fracA, fracB) ==
  LET question == FToString(fracA) \o <<" + ">> \o FToString(fracB)
      s1 == AddStep(<<>>, <<"Add fractions: ">> \o question)
  IN Then(CommonDenominatorSteps(s1, fracA, fracB), LAMBDA narrated :
     Then(FAdd(fracA, fracB), LAMBDA result :
     Then(NewFraction(RoundRatio(result.val.denominator
                                 * (fracA.numerator * fracB.denominator + fracB.numerator * fracA.denominator),
                                 fracA.denominator * fracB.denominator),
                      result.val.denominator, FALSE), LAMBDA beforeSimplify :
     Then(Gcd(JAbs(beforeSimplify.val.numerator), beforeSimplify.val.denominator), LAMBDA divisor :
       LET s2 == IF beforeSimplify.val # result.val
                 THEN AddStep(narrated.val, <<"Simplify: divide by gcd(">>
                                            \o NumToStr(JAbs(beforeSimplify.val.numerator)) \o <<", ">>
                                            \o NumToStr(beforeSimplify.val.denominator) \o <<") = ">>
                                            \o NumToStr(divisor.val))
                 ELSE narrated.val
       IN Ok(Build(question, AddStep(s2, <<"Result: ">> \o FToString(result.val)), FToString(result.val)))))))

SubtractFractions(fracA, fracB) ==
  LET question == FToString(fracA) \o <<" - ">> \o FToString(fracB)
      s1 == AddStep(<<>>, <<"Subtract fractions: ">> \o question)
  IN Then(FSubtract(fracA, fracB), LAMBDA result :
       Ok(Build(question, AddStep(s1, <<"Result: ">> \o FToString(result.val)), FToString(result.val))))

(***************************************************************************)
(* solver.js: solve and canSolve.                                          *)
(***************************************************************************)
UnknownSolution(text) ==
  [question |-> text,
   steps |-> <<[description |-> <<"Could not parse expression">>, stepNumber |-> 1]>>,
   result |-> [value |-> <<"Unknown">>]]

CanSolveUnlessFraction(text) == DetectExpressionType(text) \notin {"unknown", "fraction"}

CanSolve(text) == DetectExpressionType(text) # "unknown"

(***************************************************************************)
(* A call of lcm(a, b), with the loop of gcd unfolded into steps.          *)
(***************************************************************************)
GcdArgs == (0 - MaxGcdArg)..MaxGcdArg

InitGcd ==
  /\ gin \in GcdArgs \X GcdArgs
  /\ ga = 0 /\ gb = 0 /\ gout = 0 /\ lout = 0
  /\ gpc = "call"
  /\ ctor = None /\ operand = None /\ acc = None /\ hist = <<>>
  /\ input = <<>> /\ entry = "none" /\ pc = "idle" /\ etype = "none" /\ outcome = None /\ lexed = FALSE
  /\ calls = <<>> /\ lexer = None

\* a = Math.abs(a); b = Math.abs(b)
GcdAbs ==
  /\ gpc = "call"
  /\ ga' = JAbs(gin[1])
  /\ gb' = JAbs(gin[2])
  /\ gpc' = "loop"
  /\ UNCHANGED <<gin, gout, lout>>
  /\ UNCHANGED <<fracVars, engineVars, callVars>>

GcdIterSubtract ==
  /\ gpc = "loop"
  /\ gb # 0
  /\ ga' = gb
  /\ gb' = IF ga >= gb THEN ga - gb ELSE ga
  /\ UNCHANGED <<gin, gout, lout, gpc>>
  /\ UNCHANGED <<fracVars, engineVars, callVars>>

\* one turn of: while (b !== 0) { temp = b; b = a % b; a = temp }
GcdIter ==
  /\ gpc = "loop"
  /\ gb # 0
  /\ ga' = gb
  /\ gb' = ga % gb
  /\ UNCHANGED <<gin, gout, lout, gpc>>
  /\ UNCHANGED <<fracVars, engineVars, callVars>>

\* return a
GcdReturn ==
  /\ gpc = "loop"
  /\ gb = 0
  /\ gout' = ga
  /\ gpc' = "returned"
  /\ UNCHANGED <<gin, ga, gb, lout>>
  /\ UNCHANGED <<fracVars, engineVars, callVars>>

\* return Math.abs(a * b) / gcd(a, b)
LcmReturn ==
  /\ gpc = "returned"
  /\ lout' = JDiv(JAbs(JMul(gin[1], gin[2])), gout)
  /\ gpc' = "done"
  /\ UNCHANGED <<gin, ga, gb, gout>>
  /\ UNCHANGED <<fracVars, engineVars, callVars>>

NextGcd == GcdAbs \/ GcdIter \/ GcdReturn \/ LcmReturn

SpecGcd == InitGcd /\ [][NextGcd]_vars

(***************************************************************************)
(* A Fraction object and the methods called on it.  ctor holds the         *)
(* arguments of the constructor call that made the first object, acc the   *)
(* outcome of the last call (the object the next method is called on) and  *)
(* hist the calls made since.                                              *)
(***************************************************************************)
IntArgs == (0 - MaxInt)..MaxInt

\* the Fractions a caller can hold: any constructor call that returns
FractionArgs ==
  {NewFraction(n, d, a).val : <<n, d, a>> \in {t \in IntArgs \X IntArgs \X BOOLEAN : t[2] # 0}}

ExpArgs == (0 - MaxExp)..MaxExp

Call(name, a) == [op |-> name, arg |-> a]

InitFraction ==
  /\ ctor \in [n : IntArgs, d : IntArgs, auto : BOOLEAN]
  /\ operand \in FractionArgs
  /\ acc = NewFraction(ctor.n, ctor.d, ctor.auto)
  /\ hist = <<>>
  /\ gin = <<0, 0>> /\ ga = 0 /\ gb = 0 /\ gout = 0 /\ lout = 0 /\ gpc = "idle"
  /\ input = <<>> /\ entry = "none" /\ pc = "idle" /\ etype = "none" /\ outcome = None /\ lexed = FALSE
  /\ calls = <<>> /\ lexer = None

\* a further call is made while the numbers stay within the model's range
CanCall ==
  /\ IsOk(acc)
  /\ Len(hist) < MaxOps
  /\ JAbs(acc.val.numerator) <= MaxMagnitude
  /\ acc.val.denominator <= MaxMagnitude

Method(name, a, result) ==
  /\ CanCall
  /\ acc' = result
  /\ hist' = Append(hist, Call(name, a))
  /\ UNCHANGED <<ctor, operand>>
  /\ UNCHANGED <<gcdVars, engineVars, callVars>>

DoAdd == Method("add", operand, FAdd(acc.val, operand))

DoSubtract == Method("subtract", operand, FSubtract(acc.val, operand))

DoMultiply == Method("multiply", operand, FMultiply(acc.val, operand))

DoDivide == Method("divide", operand, FDivide(acc.val, operand))

DoPow == \E e \in ExpArgs : Method("pow", e, FPow(acc.val, IntExponent(e)))

DoNegate == Method("negate", None, FNegate(acc.val))

DoAbs == Method("abs", None, FAbs(acc.val))

DoReciprocal == Method("reciprocal", None, FReciprocal(acc.val))

DoClone == Method("clone", None, FClone(acc.val))

NextFraction ==
  \/ DoAdd \/ DoSubtract \/ DoMultiply \/ DoDivide \/ DoPow
  \/ DoNegate \/ DoAbs \/ DoReciprocal \/ DoClone

SpecFraction == InitFraction /\ [][NextFraction]_vars

(***************************************************************************)
(* A call of an entry point of the engine on a text.  solve is two steps:  *)
(* the classification, then the branch of the switch it selects.  lexed    *)
(* records whether the call ran the Lexer and the Parser (parse()).        *)
(***************************************************************************)
Lexemes ==
  {<<"0">>, <<"1">>, <<"2">>, <<"0", ".", "4">>, <<"/">>, <<"U+00F7">>, <<"+">>, <<"-">>,
   <<"=">>, <<"(">>, <<")">>, <<"^">>, <<" ">>, <<"x">>, <<"y">>}

\* the texts made of at most k lexemes
RECURSIVE Concats(_)
Concats(k) ==
  IF k = 0 THEN {<<>>}
  ELSE LET shorter == Concats(k - 1)
       IN shorter \cup {t \o l : t \in shorter, l \in Lexemes}

ShortTexts == Concats(MaxLexemes)

SumArgs == (0 - MaxSum)..MaxSum

\* the text "a/b + c/d"
FractionSumText(a, b, c, d) ==
  NumToStr(a) \o <<"/">> \o NumToStr(b) \o <<" ", "+", " ">> \o NumToStr(c) \o <<"/">> \o NumToStr(d)

FractionSumTexts ==
  {FractionSumText(q[1], q[2], q[3], q[4]) :
     q \in {t \in SumArgs \X SumArgs \X SumArgs \X SumArgs : t[2] # 0 /\ t[4] # 0}}

\* the texts "n/d"
FractionText(n, d) == NumToStr(n) \o <<"/">> \o NumToStr(d)

FractionTexts == {FractionText(n, d) : n \in (0 - MaxNumeral)..MaxNumeral, d \in 0..MaxNumeral}

\* the texts "n over d" and "n bar d"
NaturalText(n, word, d) == NumToStr(n) \o <<" ">> \o word \o <<" ">> \o NumToStr(d)

NaturalTexts == {NaturalText(n, w, d) : n \in IntArgs, w \in {Words.over, Words.bar}, d \in 0..MaxInt}

\* the mixed-number texts "w n/d" and "-w n/d"
MixedText(minus, w, n, d) ==
  (IF minus THEN <<"-">> ELSE <<>>) \o NumToStr(w) \o <<" ">> \o NumToStr(n) \o <<"/">> \o NumToStr(d)

MixedTexts == {MixedText(m, w, n, d) : m \in BOOLEAN, w \in 0..MaxInt, n \in 0..MaxInt, d \in 1..MaxInt}

\* a term of a side of a linear equation in x: a constant k, x, or kx, added or subtracted
LinearTerms == [neg : BOOLEAN, kind : {"const", "var", "coefvar"}, k : 0..MaxInt]

TermText(t) ==
  IF t.kind = "const" THEN NumToStr(t.k)
  ELSE IF t.kind = "var" THEN <<"x">>
  ELSE NumToStr(t.k) \o <<"x">>

\* the text of a side: the first term possibly preceded by a minus sign,
\* the others joined by " + " or " - "
RECURSIVE SideText(_)
SideText(side) ==
  IF Len(side) = 1 THEN (IF side[1].neg THEN <<"-">> ELSE <<>>) \o TermText(side[1])
  ELSE SideText(SubSeq(side, 1, Len(side) - 1))
       \o <<" ", IF side[Len(side)].neg THEN "-" ELSE "+", " ">> \o TermText(side[Len(side)])

LeftSides == {<<t>> : t \in LinearTerms} \cup {<<t, u>> : t \in LinearTerms, u \in LinearTerms}

RightSides == {<<t>> : t \in LinearTerms}

EquationText(left, right) == SideText(left) \o <<" ", "=", " ">> \o SideText(right)

EquationTexts == {EquationText(l, r) : l \in LeftSides, r \in RightSides}

\* the texts "b squared", "b cubed", "b ^ n" and "kx^n"
PowerOperands == {NumToStr(n) : n \in 0..MaxInt} \cup {<<"x">>}

PowerWordText(b, word) == b \o <<" ">> \o word

PowerSignText(b, n) == b \o <<" ", "^", " ">> \o NumToStr(n)

CoefficientPowerText(k, n) == NumToStr(k) \o <<"x", "^">> \o NumToStr(n)

PowerTexts ==
  {PowerWordText(b, w) : b \in PowerOperands, w \in {Words.squared, Words.cubed}}
  \cup {PowerSignText(b, n) : b \in PowerOperands, n \in {2, 3}}
  \cup {CoefficientPowerText(k, n) : k \in 1..MaxInt, n \in {2, 3}}

\* the texts "a/b^c", "a U+00F7 b^c", "a^b/c" and "a^b U+00F7 c"
SlashPowerText(a, b, c) == NumToStr(a) \o <<"/">> \o NumToStr(b) \o <<"^">> \o NumToStr(c)

DividePowerText(a, b, c) == NumToStr(a) \o <<" ", "U+00F7", " ">> \o NumToStr(b) \o <<"^">> \o NumToStr(c)

PowerSlashText(a, b, c) == NumToStr(a) \o <<"^">> \o NumToStr(b) \o <<"/">> \o NumToStr(c)

PowerDivideText(a, b, c) == NumToStr(a) \o <<"^">> \o NumToStr(b) \o <<" ", "U+00F7", " ">> \o NumToStr(c)

DivisionTexts ==
  UNION {{SlashPowerText(a, b, c), DividePowerText(a, b, c), PowerSlashText(a, b, c), PowerDivideText(a, b, c)} :
           a \in 0..MaxInt, b \in 0..MaxInt, c \in 0..MaxInt}

\* the texts "-a+-b" and "-a*-b"
NegatedText(a, op, b) == <<"-">> \o NumToStr(a) \o <<op, "-">> \o NumToStr(b)

NegatedTexts == {NegatedText(a, op, b) : a \in 1..MaxSum, op \in {"+", "*"}, b \in 1..MaxSum}

Texts ==
  ShortTexts \cup FractionSumTexts \cup FractionTexts \cup NaturalTexts \cup MixedTexts
  \cup EquationTexts \cup PowerTexts \cup DivisionTexts \cup NegatedTexts

Init ==
  /\ input \in Texts
  /\ entry = "none" /\ pc = "ready" /\ etype = "none" /\ outcome = None /\ lexed = FALSE
  /\ calls = <<>> /\ lexer = None
  /\ gin = <<0, 0>> /\ ga = 0 /\ gb = 0 /\ gout = 0 /\ lout = 0 /\ gpc = "idle"
  /\ ctor = None /\ operand = None /\ acc = None /\ hist = <<>>

Ended(r) == IF r.kind = "hang" THEN "hung" ELSE "done"

\* the call returns or throws (done), or never comes back (hung)
Finish(r, ranParser) ==
  /\ outcome' = r
  /\ pc' = IF r.kind = "hang" THEN "hung" ELSE "done"
  /\ lexed' = ranParser
  /\ UNCHANGED input
  /\ UNCHANGED <<gcdVars, fracVars, callVars>>

Direct(name, r, ranParser) ==
  /\ pc = "ready"
  /\ entry' = name
  /\ UNCHANGED etype
  /\ Finish(r, ranParser)

\* const expressionType = detectExpressionType(input)
SolveClassify ==
  /\ pc = "ready"
  /\ entry' = "solve"
  /\ etype' = DetectExpressionType(input)
  /\ pc' = "dispatch"
  /\ UNCHANGED <<input, outcome, lexed>>
  /\ UNCHANGED <<gcdVars, fracVars, callVars>>

Branch(types, r, ranParser) ==
  /\ pc = "dispatch"
  /\ etype \in types
  /\ UNCHANGED <<entry, etype>>
  /\ Finish(r, ranParser)

SolveFraction == Branch({"fraction"}, SimplifyFraction(input), FALSE)

SolveArithmetic ==
  Branch({"arithmetic", "arithmetic_equation", "algebraic_expression"}, EvaluateArithmetic(input), TRUE)

SolveEquationAsArithmetic == Branch({"algebraic_equation"}, EvaluateArithmetic(input), TRUE)

SolveEquation == Branch({"algebraic_equation"}, SolveLinearEquation(input), TRUE)

SolveUnknown ==
  /\ pc = "dispatch"
  /\ etype \notin {"fraction", "arithmetic", "arithmetic_equation", "algebraic_equation", "algebraic_expression"}
  /\ UNCHANGED <<entry, etype>>
  /\ Finish(Ok(UnknownSolution(input)), FALSE)

CallCanSolve == Direct("canSolve", Ok(CanSolve(input)), FALSE)

CallSimplifyFraction == Direct("simplifyFraction", SimplifyFraction(input), FALSE)

CallEvaluateArithmetic == Direct("evaluateArithmetic", EvaluateArithmetic(input), TRUE)

CallSolveLinearEquation == Direct("solveLinearEquation", SolveLinearEquation(input), TRUE)

CallDetectExpressionType == Direct("detectExpressionType", Ok(DetectExpressionType(input)), FALSE)

\* simplifyFraction(f) called with a Fraction object, which operand records
\* (the call has no input text)
CallSimplifyFractionObject ==
  \E f \in FractionArgs :
    /\ pc = "ready"
    /\ input = <<>>
    /\ entry' = "simplifyFraction"
    /\ operand' = f
    /\ outcome' = SimplifyFractionObject(f)
    /\ pc' = "done"
    /\ UNCHANGED <<input, etype, lexed, ctor, acc, hist>>
    /\ UNCHANGED <<gcdVars, callVars>>

CallParseFraction == Direct("parseFraction", ParseFraction(input), FALSE)

CallTokenize == Direct("tokenize", Tokenize(input), TRUE)

CallParse == Direct("parse", Parse(input), TRUE)

\* a helper f(a, b) called with two Fraction objects, which acc and
\* operand record (the call has no input text)
CallPairwise(name, a, b, r) ==
  /\ pc = "ready"
  /\ input = <<>>
  /\ entry' = name
  /\ acc' = Ok(a)
  /\ operand' = b
  /\ outcome' = r
  /\ pc' = Ended(r)
  /\ UNCHANGED <<input, etype, lexed, ctor, hist>>
  /\ UNCHANGED <<gcdVars, callVars>>

CallAddFractions == \E a \in FractionArgs, b \in FractionArgs : CallPairwise("addFractions", a, b, AddFractions(a, b))

CallSubtractFractions ==
  \E a \in FractionArgs, b \in FractionArgs : CallPairwise("subtractFractions", a, b, SubtractFractions(a, b))

\* the text is a number literal: digits, or digits "." digits
IsNumberLiteral(text) ==
  LET i1 == SkipDigits(text, 1)
      e == SkipDigits(text, i1 + 1)
  IN /\ i1 > 1
     /\ \/ i1 = Len(text) + 1
        \/ At(text, i1) = "." /\ e > i1 + 1 /\ e = Len(text) + 1

\* Fraction.from(value) with the number written as the literal input
CallFractionFrom ==
  /\ IsNumberLiteral(input)
  /\ Direct("Fraction.from", FractionFrom(ParseFloat(input)), FALSE)

Next ==
  \/ SolveClassify \/ SolveFraction \/ SolveArithmetic \/ SolveEquation \/ SolveUnknown
  \/ CallCanSolve \/ CallSimplifyFraction \/ CallEvaluateArithmetic \/ CallSolveLinearEquation
  \/ CallParseFraction \/ CallTokenize \/ CallParse
  \/ CallDetectExpressionType \/ CallSimplifyFractionObject \/ CallFractionFrom
  \/ CallAddFractions \/ CallSubtractFractions

Spec == Init /\ [][Next]_vars

(***************************************************************************)
(* Two invocations of solve in progress at once.  Each invocation has the  *)
(* objects its code creates: the StepBuilder (steps), the Lexer's tokens   *)
(* and the tree returned by the Parser.                                    *)
(***************************************************************************)
Callers == {1, 2}

\* the text "a+b"
SumText(a, b) == NumToStr(a) \o <<"+">> \o NumToStr(b)

\* a positive term k, x or kx with the largest k
PlainTerms == {t \in LinearTerms : ~t.neg /\ t.k = MaxInt}

CallTexts ==
  Concats(1)
  \cup {FractionText(n, d) : n \in 1..MaxSum, d \in 1..MaxSum}
  \cup {FractionSumText(1, 2, 1, d) : d \in 1..MaxSum}
  \cup {SumText(a, b) : a \in 1..MaxSum, b \in 1..MaxSum}
  \cup {EquationText(<<t>>, <<u>>) : t \in PlainTerms, u \in PlainTerms}
  \cup {PowerSignText(NumToStr(n), 2) : n \in 0..MaxInt}
  \cup {<<"x", "=", "0", "/", "0", ".", "4">>}

NewCall(text) ==
  [text |-> text, pc |-> "ready", etype |-> "none", steps |-> <<>>, tokens |-> <<>>,
   ast |-> None, outcome |-> None]

InitCalls ==
  /\ calls \in [Callers -> {NewCall(t) : t \in CallTexts}]
  /\ lexer = None
  /\ input = <<>> /\ entry = "none" /\ pc = "idle" /\ etype = "none" /\ outcome = None /\ lexed = FALSE
  /\ gin = <<0, 0>> /\ ga = 0 /\ gb = 0 /\ gout = 0 /\ lout = 0 /\ gpc = "idle"
  /\ ctor = None /\ operand = None /\ acc = None /\ hist = <<>>

\* a builder that all invocations would share
StepBuilderShared(c, i) == c[1].steps

\* the steps of the StepBuilder that invocation i created
StepBuilderOf(c, i) == c[i].steps

\* solve(input) as one call
Solve(text) ==
  LET expressionType == DetectExpressionType(text)
  IN IF expressionType = "fraction" THEN SimplifyFraction(text)
     ELSE IF expressionType \in {"arithmetic", "arithmetic_equation", "algebraic_expression"}
          THEN EvaluateArithmetic(text)
     ELSE IF expressionType = "algebraic_equation" THEN SolveLinearEquation(text)
     ELSE Ok(UnknownSolution(text))

\* invocation i returns r, throws it, or never comes back
Return(i, r) ==
  /\ calls' = [calls EXCEPT ![i] = [@ EXCEPT !.outcome = r, !.pc = Ended(r)]]
  /\ UNCHANGED <<gcdVars, fracVars, engineVars, lexer>>

\* const expressionType = detectExpressionType(input)
Classify(i) ==
  /\ calls[i].pc = "ready"
  /\ calls' = [calls EXCEPT ![i] = [@ EXCEPT !.etype = DetectExpressionType(calls[i].text),
                                             !.pc = "dispatch"]]
  /\ UNCHANGED <<gcdVars, fracVars, engineVars, lexer>>

\* default: the literal Solution for an unknown text
SolveDefault(i) ==
  /\ calls[i].pc = "dispatch"
  /\ calls[i].etype = "unknown"
  /\ Return(i, Ok(UnknownSolution(calls[i].text)))

\* const steps = new StepBuilder(input)
NewStepBuilder(i) ==
  /\ calls[i].pc = "dispatch"
  /\ calls[i].etype # "unknown"
  /\ calls' = [calls EXCEPT ![i] = [@ EXCEPT !.steps = <<>>,
                                             !.pc = IF calls[i].etype = "fraction" THEN "simplify" ELSE "lex"]]
  /\ UNCHANGED <<gcdVars, fracVars, engineVars, lexer>>

\* the body of simplifyFraction
RunSimplifyFraction(i) ==
  /\ calls[i].pc = "simplify"
  /\ Return(i, SimplifyStepsFrom(calls[i].text, StepBuilderOf(calls, i), ParseFraction(calls[i].text)))

\* parse: const tokens = new Lexer(input).tokenize()
RunLexer(i) ==
  /\ calls[i].pc = "lex"
  /\ LET tokens == Tokenize(calls[i].text)
     IN IF IsOk(tokens)
        THEN /\ calls' = [calls EXCEPT ![i] = [@ EXCEPT !.tokens = tokens.val, !.pc = "parse"]]
             /\ UNCHANGED <<gcdVars, fracVars, engineVars, lexer>>
        ELSE Return(i, Caught(calls[i].text, StepBuilderOf(calls, i), tokens))

\* parse: return new Parser(tokens).parse(), then the type test of
\* solveLinearEquation and steps.addStep('Parse ...')
RunParser(i) ==
  /\ calls[i].pc = "parse"
  /\ LET ast == ParseTokens(calls[i].tokens)
         equation == calls[i].etype = "algebraic_equation"
     IN IF ~IsOk(ast) THEN Return(i, Caught(calls[i].text, StepBuilderOf(calls, i), ast))
        ELSE IF equation /\ ast.val.type # "Equation"
             THEN Return(i, Ok(ErrorSolution(calls[i].text, StepBuilderOf(calls, i),
                                             <<"Input is not an equation">>)))
        ELSE /\ calls' = [calls EXCEPT ![i] =
                            [@ EXCEPT !.ast = ast.val,
                                      !.steps = AddStep(StepBuilderOf(calls, i),
                                                        IF equation THEN <<"Parse equation">>
                                                        ELSE <<"Parse expression">>),
                                      !.pc = "evaluate"]]
             /\ UNCHANGED <<gcdVars, fracVars, engineVars, lexer>>

\* the rest of evaluateArithmetic or of solveLinearEquation
RunEvaluate(i) ==
  /\ calls[i].pc = "evaluate"
  /\ Return(i, IF calls[i].etype = "algebraic_equation"
               THEN SolveAst(calls[i].text, StepBuilderOf(calls, i), calls[i].ast)
               ELSE EvaluateAst(calls[i].text, StepBuilderOf(calls, i), calls[i].ast))

NextCalls ==
  \E i \in Callers :
    \/ Classify(i) \/ SolveDefault(i) \/ NewStepBuilder(i) \/ RunSimplifyFraction(i)
    \/ RunLexer(i) \/ RunParser(i) \/ RunEvaluate(i)

SpecCalls == InitCalls /\ [][NextCalls]_vars

(***************************************************************************)
(* parser.js: the loop of Lexer.tokenize, one iteration at a time.         *)
(***************************************************************************)
\* the texts "1 <word> 2", "1 divided by 2" and "1 multiplied by 2"
KeywordText(words) == <<"1", " ">> \o words \o <<" ", "2">>

KeywordTexts ==
  {KeywordText(Words[w]) : w \in DOMAIN Words}
  \cup {KeywordText(Words[w] \o <<" ">> \o Words.by) : w \in {"divided", "multiplied"}}

\* texts with a character no branch of the loop recognises
UnknownText(a, c, b) == NumToStr(a) \o <<c>> \o NumToStr(b)

Unrecognized == {"?", "#"}

UnknownTexts == {UnknownText(a, c, b) : a \in 0..MaxInt, c \in Unrecognized, b \in 0..MaxInt}

LexerTexts ==
  ShortTexts \cup FractionTexts \cup MixedTexts \cup PowerTexts \cup KeywordTexts
  \cup UnknownTexts

\* new Lexer(input)
NewLexer(text) == [input |-> Trim(text), pos |-> 1, tokens |-> <<>>, pc |-> "loop"]

InitLexer ==
  /\ lexer \in {NewLexer(t) : t \in LexerTexts}
  /\ calls = <<>>
  /\ input = <<>> /\ entry = "none" /\ pc = "idle" /\ etype = "none" /\ outcome = None /\ lexed = FALSE
  /\ gin = <<0, 0>> /\ ga = 0 /\ gb = 0 /\ gout = 0 /\ lout = 0 /\ gpc = "idle"
  /\ ctor = None /\ operand = None /\ acc = None /\ hist = <<>>

\* the loop body at every index of every input of the lexer
LexIterationOf ==
  [s \in {Trim(t) : t \in LexerTexts} |-> [pos \in 1..Len(s) |-> LexIteration(s, pos)]]

\* while (this.pos < this.input.length) { ... }: one iteration; a throw of
\* the Fraction constructor leaves the loop
LexerIterate ==
  /\ lexer.pc = "loop"
  /\ lexer.pos <= Len(lexer.input)
  /\ LET it == LexIterationOf[lexer.input][lexer.pos]
     IN lexer' = IF IsOk(it)
                 THEN [lexer EXCEPT !.pos = it.val.next, !.tokens = lexer.tokens \o it.val.toks]
                 ELSE [lexer EXCEPT !.pc = IF it.kind = "hang" THEN "hung" ELSE "threw"]
  /\ UNCHANGED <<gcdVars, fracVars, engineVars, calls>>

\* this.tokens.push(new Token(TokenType.EOF, null, '')); return this.tokens
LexerReturn ==
  /\ lexer.pc = "loop"
  /\ lexer.pos > Len(lexer.input)
  /\ lexer' = [lexer EXCEPT !.tokens = Append(lexer.tokens, Tok("EOF", "null")), !.pc = "returned"]
  /\ UNCHANGED <<gcdVars, fracVars, engineVars, calls>>

NextLexer == LexerIterate \/ LexerReturn

\* the loop runs on: the call is not suspended between iterations
SpecLexer == InitLexer /\ [][NextLexer]_vars /\ WF_vars(NextLexer)

(***************************************************************************)
(* Properties.                                                             *)
(***************************************************************************)
Returned == pc = "done" \/ pc = "hung"

SolveReturned == entry = "solve" /\ Returned

IsErrorStep(step) == Head(step.description) = "Error: "

\* C1: for every input text, solve(text) returns a Solution and lets no
\* exception escape, whatever branch the classifier routes the text to.
C1_SolveNeverThrows == SolveReturned => outcome.kind = "ok"

Abs(n) == IF n < 0 THEN 0 - n ELSE n

\* the string form of the exact reduced value of n/m (m # 0)
ReducedText(n, m) ==
  LET g == GcdLoop(Abs(n), Abs(m))
      p == (IF m < 0 THEN 0 - n ELSE n) \div g
      q == Abs(m) \div g
  IN IF q = 1 THEN NumToStr(p) ELSE NumToStr(p) \o <<"/">> \o NumToStr(q)

\* C2: for all integers a, c and non-zero integers b, d, solve("a/b + c/d")
\* returns a Solution whose result.value is the string form of the exact
\* reduced sum of the two fractions.
C2_SolveFractionSum ==
  SolveReturned =>
    \A a, b, c, d \in SumArgs :
      (b # 0 /\ d # 0 /\ input = FractionSumText(a, b, c, d)) =>
        /\ outcome.kind = "ok"
        /\ outcome.val.result.value = ReducedText(a * d + c * b, b * d)

\* the calls that run evaluateArithmetic or solveLinearEquation and came back
RanEvaluateArithmetic ==
  /\ pc = "done"
  /\ \/ entry = "evaluateArithmetic"
     \/ entry = "solve" /\ etype \in {"arithmetic", "arithmetic_equation", "algebraic_expression"}

RanSolveLinearEquation ==
  /\ pc = "done"
  /\ \/ entry = "solveLinearEquation"
     \/ entry = "solve" /\ etype = "algebraic_equation"

Failed == outcome.kind = "ok" /\ outcome.val.result.value = <<"Error">>

\* C3 as stated: when parsing or evaluation fails inside evaluateArithmetic
\* or solveLinearEquation, the returned Solution has exactly one step, the
\* "Error: <message>" step, and result.value "Error".
C3_ErrorHasOneStep ==
  ((RanEvaluateArithmetic \/ RanSolveLinearEquation) /\ Failed) =>
    /\ Len(outcome.val.steps) = 1
    /\ IsErrorStep(outcome.val.steps[1])

\* C3 as amended: a failure caught inside evaluateArithmetic or
\* solveLinearEquation returns a Solution with result.value "Error" whose
\* last step, and no other, is the "Error: <message>" step.  It is the only
\* step when the text fails to parse (or, in solveLinearEquation, is not an
\* equation); otherwise the steps recorded before the failure, starting with
\* the "Parse ..." step, are kept in front of it.  No other Solution of
\* these two functions has an "Error: " step or the result "Error".
C3_ErrorIsLastStep ==
  ((RanEvaluateArithmetic \/ RanSolveLinearEquation) /\ outcome.kind = "ok") =>
    LET sol == outcome.val
        n == Len(sol.steps)
        ast == Parse(input)
        early == ast.kind = "throw" \/ (RanSolveLinearEquation /\ ast.val.type # "Equation")
    IN /\ (sol.result.value = <<"Error">>) <=> (n >= 1 /\ IsErrorStep(sol.steps[n]))
       /\ \A i \in 1..(n - 1) : ~IsErrorStep(sol.steps[i])
       /\ early => Failed /\ n = 1
       /\ ast.kind = "throw" => sol.steps[1].description = <<"Error: ">> \o ast.msg
       /\ (Failed /\ ~early) =>
            /\ n >= 2
            /\ sol.steps[1].description \in {<<"Parse expression">>, <<"Parse equation">>}
            /\ Len(sol.steps[n].description) >= 2

C3_Witness ==
  /\ RanEvaluateArithmetic
  /\ entry = "solve"
  /\ etype = "algebraic_expression"
  /\ Failed
  /\ Len(outcome.val.steps) = 2
  /\ outcome.val.steps[2].description = <<"Error: ", "Cannot evaluate node type: ", "Variable">>

\* the handler the switch of solve selects for a classification
Selected(type, text) ==
  IF type = "fraction" THEN SimplifyFraction(text)
  ELSE IF type \in {"arithmetic", "arithmetic_equation", "algebraic_expression"} THEN EvaluateArithmetic(text)
  ELSE IF type = "algebraic_equation" THEN SolveLinearEquation(text)
  ELSE Ok([question |-> text,
           steps |-> <<[description |-> <<"Could not parse expression">>, stepNumber |-> 1]>>,
           result |-> [value |-> <<"Unknown">>]])

\* C4: solve(text) returns exactly what the handler selected by
\* detectExpressionType(text) returns (fraction -> simplifyFraction;
\* arithmetic, arithmetic_equation, algebraic_expression ->
\* evaluateArithmetic; algebraic_equation -> solveLinearEquation), and for
\* unknown the fixed "Could not parse expression" / "Unknown" Solution,
\* without running the lexer or the parser.
C4_SolveDispatch ==
  SolveReturned =>
    /\ etype = DetectExpressionType(input)
    /\ outcome = Selected(etype, input)
    /\ etype = "unknown" => ~lexed

C4_Witness ==
  /\ SolveReturned
  /\ etype = "unknown"
  /\ input = <<"x", "y">>
  /\ outcome.val.result.value = <<"Unknown">>
  /\ ~lexed

\* C5: canSolve(text) is true iff detectExpressionType(text) is not
\* "unknown"; canSolve(text) is false exactly for the texts on which solve
\* returns the "Unknown" result.
C5_CanSolveIffKnown ==
  /\ (entry = "canSolve" /\ Returned) => outcome = Ok(DetectExpressionType(input) # "unknown")
  /\ SolveReturned =>
       ((outcome.kind = "ok" /\ outcome.val.result.value = <<"Unknown">>) <=> ~CanSolve(input))

C5_Witness ==
  /\ entry = "canSolve"
  /\ Returned
  /\ input = <<"x">>
  /\ outcome = Ok(FALSE)

\* the Fraction made by the constructor call ctor
Start == NewFraction(ctor.n, ctor.d, ctor.auto).val

\* the greatest common divisor of two naturals
RECURSIVE Divisor(_, _)
Divisor(a, b) == IF b = 0 THEN a ELSE Divisor(b, a % b)

LowestTerms(f) ==
  /\ f.denominator > 0
  /\ Divisor(Abs(f.numerator), f.denominator) = 1

\* C6: every Fraction built by the constructor with the default
\* autoSimplify from integers n and d # 0, and every Fraction returned by
\* add, subtract, multiply, divide, pow, negate, abs, reciprocal or clone,
\* has denominator > 0 and gcd(|numerator|, denominator) = 1, and the
\* constructed value is the same rational as n/d.
C6_LowestTerms ==
  IsOk(acc) =>
    /\ (hist = <<>> /\ ctor.auto) =>
         /\ LowestTerms(acc.val)
         /\ acc.val.numerator * ctor.d = ctor.n * acc.val.denominator
    /\ hist # <<>> => LowestTerms(acc.val)

C6_Witness ==
  /\ ctor = [n |-> 2, d |-> 0 - 2, auto |-> TRUE]
  /\ Len(hist) = 1
  /\ hist[1].op = "reciprocal"
  /\ acc = Ok(Frac(0 - 1, 1))

\* C7: for all Fractions a and b, a.add(b).subtract(b).equals(a) is true.
C7_AddSubtractRoundTrip ==
  (/\ Len(hist) = 2
   /\ hist[1].op = "add"
   /\ hist[2].op = "subtract"
   /\ hist[1].arg = hist[2].arg) =>
    /\ IsOk(acc)
    /\ FEquals(acc.val, Start)

\* C8: for every Fraction a that is not zero (positive or negative),
\* a.multiply(a.reciprocal()).equals(Fraction(1, 1)) is true.
C8_ReciprocalProduct ==
  (/\ Len(hist) = 1
   /\ hist[1].op = "multiply"
   /\ ~IsZero(Start)
   /\ FReciprocal(Start) = Ok(hist[1].arg)) =>
    /\ IsOk(acc)
    /\ FEquals(acc.val, NewFraction(1, 1, TRUE).val)

C8_Witness ==
  /\ ctor = [n |-> 2, d |-> 0 - 2, auto |-> FALSE]
  /\ Len(hist) = 1
  /\ hist[1] = Call("multiply", Frac(0 - 1, 1))
  /\ acc = Ok(Frac(1, 1))

\* C9: for all positive integers a and b, gcd(a, b) * lcm(a, b) = a * b,
\* where gcd is the result of the Euclidean loop, which terminates (b
\* decreases at every turn), and lcm is |a * b| / gcd(a, b).
C9_GcdLcmProduct ==
  /\ [](gpc = "done" /\ gin[1] > 0 /\ gin[2] > 0 => gout * lout = gin[1] * gin[2])
  /\ [][(gpc = "loop" /\ gpc' = "loop") => (gb' >= 0 /\ gb' < gb)]_vars

C9_Witness ==
  /\ gpc = "done"
  /\ gin = <<4, 6>>
  /\ gout = 2
  /\ lout = 12

\* C10: a Fraction with denominator 0 is never produced: the constructor,
\* divide by zero and reciprocal of zero fail instead, and neither an
\* operation, parseFraction nor the lexer yields one.
C10_NoZeroDenominator ==
  /\ (entry = "parseFraction" /\ pc = "done" /\ IsOk(outcome)) => outcome.val.denominator # 0
  /\ (entry = "tokenize" /\ pc = "done" /\ IsOk(outcome)) =>
       \A i \in 1..Len(outcome.val) :
         outcome.val[i].type \in {"NUMBER", "FRACTION"} => outcome.val[i].value.denominator # 0

\* the Fraction f is the rational n / d (d # 0)
SameRational(f, n, d) == f.numerator * d = n * f.denominator

\* the exact result of a op b as a pair <<numerator, denominator>>
ExactResult(op, a, b) ==
  IF op = "add" THEN <<a.numerator * b.denominator + b.numerator * a.denominator, a.denominator * b.denominator>>
  ELSE IF op = "subtract"
       THEN <<a.numerator * b.denominator - b.numerator * a.denominator, a.denominator * b.denominator>>
  ELSE IF op = "multiply" THEN <<a.numerator * b.numerator, a.denominator * b.denominator>>
  ELSE <<a.numerator * b.denominator, a.denominator * b.numerator>>

\* C11: for all Fractions a and b (b not zero for divide), a.add(b),
\* a.subtract(b), a.multiply(b) and a.divide(b) return the Fraction, in
\* lowest terms, that is the exact rational sum, difference, product and
\* quotient of a and b: at every call of one of the four methods, on any
\* object reached so far.
C11_ExactArithmetic ==
  [][(/\ Len(hist') = Len(hist) + 1
      /\ hist'[Len(hist')].op \in {"add", "subtract", "multiply", "divide"}
      /\ ~(hist'[Len(hist')].op = "divide" /\ IsZero(operand))) =>
       LET exact == ExactResult(hist'[Len(hist')].op, acc.val, hist'[Len(hist')].arg)
       IN /\ IsOk(acc')
          /\ LowestTerms(acc'.val)
          /\ SameRational(acc'.val, exact[1], exact[2])]_vars

C11_Witness ==
  /\ ctor = [n |-> 1, d |-> 2, auto |-> TRUE]
  /\ hist = <<Call("divide", Frac(0 - 1, 2)), Call("add", Frac(0 - 1, 2))>>
  /\ acc = Ok(Frac(0 - 3, 2))

SimplifyReturned == entry = "simplifyFraction" /\ Returned

\* C12: for every fraction text "n/d" with d > 0 and for every Fraction
\* input, simplifyFraction returns a result whose value is the same
\* rational in lowest terms: "p/q" with gcd(|p|, q) = 1, or the bare
\* integer "p" when the reduced denominator is 1.
C12_SimplifyFractionValue ==
  SimplifyReturned =>
    /\ \A n \in (0 - MaxNumeral)..MaxNumeral, d \in 1..MaxNumeral :
         input = FractionText(n, d) =>
           /\ outcome.kind = "ok"
           /\ outcome.val.result.value = ReducedText(n, d)
    /\ operand # None =>
         /\ outcome.kind = "ok"
         /\ outcome.val.result.value = ReducedText(operand.numerator, operand.denominator)

C12_Witness ==
  /\ SimplifyReturned
  /\ input = <<"6", "/", "8">>
  /\ outcome.kind = "ok"
  /\ outcome.val.result.value = <<"3", "/", "4">>

HasStep(steps, description) == \E i \in 1..Len(steps) : steps[i].description = description

\* C13: simplifyFraction on the text "n/d" records n and d as written in its
\* first step and computes g = gcd(|n|, d); when g = 1 its steps state that
\* the fraction is already in lowest terms, and when g > 1 they narrate
\* the division of numerator and denominator by g instead.
C13_SimplifyNarration ==
  SimplifyReturned =>
    \A n \in (0 - MaxNumeral)..MaxNumeral, d \in 1..MaxNumeral :
      input = FractionText(n, d) =>
        LET g == Divisor(Abs(n), d)
        IN /\ outcome.kind = "ok"
           /\ outcome.val.steps[1].description
                = <<"Create Fraction(">> \o NumToStr(n) \o <<", ">> \o NumToStr(d) \o <<")">>
           /\ g = 1 => HasStep(outcome.val.steps, <<"Fraction is already in lowest terms">>)
           /\ g > 1 =>
                /\ ~HasStep(outcome.val.steps, <<"Fraction is already in lowest terms">>)
                /\ HasStep(outcome.val.steps, <<"Divide numerator and denominator by ">> \o NumToStr(g))

\* the coefficient of x and the constant that a term contributes
TermCoef(t) == (IF t.neg THEN 0 - 1 ELSE 1) * (IF t.kind = "const" THEN 0 ELSE IF t.kind = "var" THEN 1 ELSE t.k)

TermConst(t) == (IF t.neg THEN 0 - 1 ELSE 1) * (IF t.kind = "const" THEN t.k ELSE 0)

RECURSIVE SideCoef(_)
SideCoef(side) == IF side = <<>> THEN 0 ELSE TermCoef(Head(side)) + SideCoef(Tail(side))

RECURSIVE SideConst(_)
SideConst(side) == IF side = <<>> THEN 0 ELSE TermConst(Head(side)) + SideConst(Tail(side))

\* every equation text of the model read as a*x + b = c*x + d
EquationTable ==
  {[text |-> EquationText(l, r), a |-> SideCoef(l), b |-> SideConst(l), c |-> SideCoef(r), d |-> SideConst(r)] :
     l \in LeftSides, r \in RightSides}

LinearReturned == entry = "solveLinearEquation" /\ Returned

\* C14: for every single-variable linear equation text whose sides are sums
\* or differences of integer constants and terms x or kx (the first term
\* possibly preceded by a minus sign), read as a*x + b = c*x + d with
\* a - c # 0, solveLinearEquation returns result.value "x = v" with
\* v = (d - b)/(a - c) in lowest terms, variable "x" and solution v.
C14_SolveLinear ==
  LinearReturned =>
    \A e \in EquationTable :
      (e.text = input /\ e.a # e.c) =>
        /\ outcome.kind = "ok"
        /\ outcome.val.result.value = <<"x", " = ">> \o ReducedText(e.d - e.b, e.a - e.c)
        /\ "variable" \in DOMAIN outcome.val
        /\ outcome.val.variable = <<"x">>
        /\ outcome.val.solution.string = ReducedText(e.d - e.b, e.a - e.c)

\* the two fractions are the same number (their difference is zero)
SameNumber(f, g) ==
  /\ ~IsNaN(f.numerator) /\ ~IsNaN(f.denominator) /\ ~IsNaN(g.numerator) /\ ~IsNaN(g.denominator)
  /\ f.numerator * g.denominator = g.numerator * f.denominator

CoefOf(terms, v) == IF v \in DOMAIN terms.coefs THEN terms.coefs[v] ELSE Frac(0, 1)

\* the equation has one variable and its coefficient is the same on both sides
NetCoefficientZero(leftTerms, rightTerms) ==
  LET allVars == (DOMAIN leftTerms.coefs) \cup (DOMAIN rightTerms.coefs)
  IN /\ Cardinality(allVars) = 1
     /\ \A v \in allVars : SameNumber(CoefOf(leftTerms, v), CoefOf(rightTerms, v))

\* some step of the solution narrates a division
Divides(steps) ==
  \E i \in 1..Len(steps) : Head(steps[i].description) = "Divide both sides by "

RECURSIVE VarsOf(_)
VarsOf(node) ==
  IF node.type = "Variable" THEN {node.name}
  ELSE IF node.type = "BinaryOp" \/ node.type = "Equation" THEN VarsOf(node.left) \cup VarsOf(node.right)
  ELSE IF node.type = "UnaryOp" THEN VarsOf(node.operand)
  ELSE {}

\* the solution ends with the error step of the given message
Reports(msg) ==
  /\ outcome.kind = "ok"
  /\ outcome.val.result.value = <<"Error">>
  /\ outcome.val.steps[Len(outcome.val.steps)].description = <<"Error: ">> \o msg

\* C16: for every text that parses to an Equation, solveLinearEquation
\* reports 'No variable found in equation' exactly when no variable occurs
\* on either side, reports 'Multiple variables found ...' exactly when more
\* than one distinct variable name occurs, and reports neither when exactly
\* one occurs.
C16_VariableCount ==
  LinearReturned =>
    LET ast == Parse(input)
    IN (IsOk(ast) /\ ast.val.type = "Equation") =>
         LET occurring == VarsOf(ast.val)
         IN /\ Reports(<<"No variable found in equation">>) <=> occurring = {}
            /\ Reports(<<"Multiple variables found - only single variable equations supported">>)
                 <=> Cardinality(occurring) > 1

DetectReturned == entry = "detectExpressionType" /\ Returned

\* the text contains the variable x
MentionsX(text) == \E i \in 1..Len(text) : text[i] = "x"

\* C17: detectExpressionType returns 'arithmetic' for a sum of two fraction
\* literals such as '2/3 + 1/4' (a variable-free expression without an
\* equals sign whose operands are joined by an arithmetic operator),
\* 'fraction' for a single fraction such as '3/4', and 'algebraic_equation'
\* for an equation that contains a variable such as '2x + 1 = 2'.
C17_DetectExpressionType ==
  DetectReturned =>
    /\ input \in FractionSumTexts => outcome = Ok("arithmetic")
    /\ input \in {FractionText(n, d) : n \in 0..MaxNumeral, d \in 1..MaxNumeral} => outcome = Ok("fraction")
    /\ (input \in EquationTexts /\ MentionsX(input)) => outcome = Ok("algebraic_equation")

ParseFractionReturned == entry = "parseFraction" /\ Returned

\* the call returned the fraction n/d, in lowest terms
ReturnedFraction(n, d) == IsOk(outcome) /\ SameRational(outcome.val, n, d) /\ LowestTerms(outcome.val)

\* the text has one of the shapes 'n/d', 'n over d', 'n bar d', 'w n/d'
FractionShaped(text) ==
  LET str == Trim(text)
  IN SlashMatch(str) # <<>> \/ NaturalMatch(str) # <<>> \/ MixedMatch(str) # <<>>

\* C18: parseFraction returns the Fraction n/d for the texts 'n/d',
\* 'n over d' and 'n bar d'; for a mixed-number text 'w n/d', optionally
\* with a leading minus sign, it returns (w*d + n)/d, negated exactly when
\* the text has the leading minus sign; any other text fails with the
\* parse error 'Cannot parse fraction from: ...'.
C18_ParseFraction ==
  ParseFractionReturned =>
    /\ \A n \in (0 - MaxNumeral)..MaxNumeral, d \in 1..MaxNumeral :
         input = FractionText(n, d) => ReturnedFraction(n, d)
    /\ \A n \in IntArgs, word \in {Words.over, Words.bar}, d \in 1..MaxInt :
         input = NaturalText(n, word, d) => ReturnedFraction(n, d)
    /\ \A minus \in BOOLEAN, w \in 0..MaxInt, n \in 0..MaxInt, d \in 1..MaxInt :
         input = MixedText(minus, w, n, d) =>
           ReturnedFraction((IF minus THEN 0 - 1 ELSE 1) * (w * d + n), d)
    /\ ~FractionShaped(input) => outcome = Throw(MsgCannotParseFraction(input))

ParseReturned == entry = "parse" /\ Returned

\* the node of an operand text: a number N or the variable x
OperandNode(b) == IF b = <<"x">> THEN VariableNode(b) ELSE NumberNode(Frac(DigitsToNat(b), 1))

\* the words 'squared' and 'cubed' with the exponent they stand for
PowerWords == {<<Words.squared, 2>>, <<Words.cubed, 3>>}

\* C19: an operand followed by the word 'squared' (respectively 'cubed')
\* is parsed exactly like the same operand followed by '^ 2' (respectively
\* '^ 3'), to BinaryOp('^', operand, 2 or 3), and evaluateArithmetic of
\* 'N squared' (respectively 'N cubed') gives N*N (respectively N*N*N).
C19_PowerWords ==
  \A b \in PowerOperands, w \in PowerWords :
    input = PowerWordText(b, w[1]) =>
      /\ ParseReturned =>
           /\ outcome = Parse(PowerSignText(b, w[2]))
           /\ outcome = Ok(BinaryOp("^", OperandNode(b), NumberNode(Frac(w[2], 1))))
      /\ (RanEvaluateArithmetic /\ Returned /\ b # <<"x">>) =>
           /\ outcome.kind = "ok"
           /\ outcome.val.result.value =
                NumToStr(IF w[2] = 2 THEN DigitsToNat(b) * DigitsToNat(b)
                         ELSE DigitsToNat(b) * DigitsToNat(b) * DigitsToNat(b))

\* the number of leaves (numbers and variables) of a syntax tree
RECURSIVE Leaves(_)
Leaves(node) ==
  IF node.type = "BinaryOp" \/ node.type = "Equation" THEN Leaves(node.left) + Leaves(node.right)
  ELSE IF node.type = "UnaryOp" THEN Leaves(node.operand)
  ELSE 1

\* C20: for a number k, the variable x and an exponent n, the text 'kx^n'
\* parses to BinaryOp('*', k, BinaryOp('^', x, n)): the exponent applies to
\* the factor written immediately before it and no operand of the input
\* is dropped (the tree has the three leaves k, x and n).
C20_PowerBindsTighter ==
  ParseReturned =>
    \A k \in 1..MaxInt, n \in {2, 3} :
      input = CoefficientPowerText(k, n) =>
        /\ outcome = Ok(BinaryOp("*", NumberNode(Frac(k, 1)),
                                 BinaryOp("^", VariableNode(<<"x">>), NumberNode(Frac(n, 1)))))
        /\ Leaves(outcome.val) = 3

\* the type of the token at which parseEquation stopped reading the text
StoppedAt(text) ==
  LET tokens == Tokenize(text)
  IN tokens.val[ParseEquation(tokens.val, 1).val.pos].type

\* C21: parse(text) returns an AST only when the whole token sequence up
\* to EOF was derived: whenever it returns, the token after the parsed
\* Equation is EOF, so an input with a stray ')' or with other tokens left
\* over fails instead of returning the AST of a prefix.
C21_ParseConsumesAll == (ParseReturned /\ IsOk(outcome)) => StoppedAt(input) = "EOF"

\* C22: the engine keeps no state between invocations: whatever the
\* interleaving of the steps of two invocations of solve, an invocation
\* that has come back returned (or threw) exactly what solve on its text
\* returns when it runs alone, one that never comes back does not come
\* back alone either, and two invocations on the same text that have both
\* come back returned equal Solutions.
C22_Stateless ==
  /\ \A i \in Callers :
       /\ calls[i].pc = "done" => calls[i].outcome = Solve(calls[i].text)
       /\ calls[i].pc = "hung" => Solve(calls[i].text).kind = "hang"
  /\ \A i \in Callers, j \in Callers :
       (calls[i].pc = "done" /\ calls[j].pc = "done" /\ calls[i].text = calls[j].text)
         => calls[i].outcome = calls[j].outcome

\* the second invocation ran from start to end while the first one held a
\* builder with a recorded step
C22_Witness ==
  /\ calls[1].pc = "evaluate"
  /\ calls[1].text = EquationText(<<[neg |-> FALSE, kind |-> "coefvar", k |-> MaxInt]>>,
                                  <<[neg |-> FALSE, kind |-> "const", k |-> MaxInt]>>)
  /\ Len(calls[1].steps) = 1
  /\ calls[2].pc = "done"
  /\ calls[2].text = SumText(1, 2)
  /\ calls[2].outcome.kind = "ok"
  /\ calls[2].outcome.val.result.value = <<"3">>
  /\ Len(calls[2].outcome.val.steps) = 2

\* C23: every Solution returned by solve, simplifyFraction (text input),
\* evaluateArithmetic or solveLinearEquation has its question field equal
\* to the input text of the call, on success and on failure alike.
C23_QuestionIsInput ==
  (/\ pc = "done"
   /\ entry \in {"solve", "simplifyFraction", "evaluateArithmetic", "solveLinearEquation"}
   /\ operand = None
   /\ outcome.kind = "ok")
    => outcome.val.question = input

\* the literal has a decimal point
HasPoint(text) == \E i \in 1..Len(text) : text[i] = "."

\* the digits of a literal as an integer, and the number of digits after the point
DigitsOf(text) == DigitsToNat(SelectSeq(text, IsDigit))

PlacesOf(text) == Len(text) - (CHOOSE i \in 1..Len(text) : text[i] = ".")

\* the Fraction is the literal's digits over 10^p, reduced
ExactDecimal(f, text) == SameRational(f, DigitsOf(text), Pow10(PlacesOf(text))) /\ LowestTerms(f)

\* C24: a decimal literal with p digits after the point becomes the
\* Fraction equal to (its digits as an integer)/10^p, reduced, both by
\* Fraction.from and in the NUMBER token the lexer builds for it, so that
\* the sum of a decimal literal with itself evaluates to twice that
\* Fraction.
C24_DecimalExact ==
  /\ (Returned /\ IsNumberLiteral(input) /\ HasPoint(input)) =>
       /\ entry = "Fraction.from" => (IsOk(outcome) /\ ExactDecimal(outcome.val, input))
       /\ entry = "tokenize" =>
            /\ IsOk(outcome)
            /\ outcome.val[1].type = "NUMBER"
            /\ ExactDecimal(outcome.val[1].value, input)
  /\ (Returned /\ entry = "evaluateArithmetic") =>
       \A k \in 1..Len(input) :
         LET literal == SubSeq(input, 1, k - 1)
         IN (input = literal \o <<"+">> \o literal /\ IsNumberLiteral(literal) /\ HasPoint(literal)) =>
              /\ outcome.kind = "ok"
              /\ outcome.val.result.value = ReducedText(2 * DigitsOf(literal), Pow10(PlacesOf(literal)))

ArithmeticReturned == entry = "evaluateArithmetic" /\ Returned

\* evaluateArithmetic returned the value n / d in lowest terms
Evaluated(n, d) == outcome.kind = "ok" /\ outcome.val.result.value = ReducedText(n, d)

\* C25: division written with '/' between integer literals has the same
\* precedence as division written with the division sign: for integer
\* literals a, b, c, evaluateArithmetic gives a/(b^c) for 'a/b^c' as for
\* 'a U+00F7 b^c' (b # 0), and (a^b)/c for 'a^b/c' as for 'a^b U+00F7 c'
\* (c # 0).
C25_SlashPrecedence ==
  ArithmeticReturned =>
    \A a \in 0..MaxInt, b \in 0..MaxInt, c \in 0..MaxInt :
      /\ (b # 0 /\ input \in {SlashPowerText(a, b, c), DividePowerText(a, b, c)})
           => Evaluated(a, JPow(b, c))
      /\ (c # 0 /\ input \in {PowerSlashText(a, b, c), PowerDivideText(a, b, c)})
           => Evaluated(JPow(a, b), c)

\* the number of BinaryOp nodes of a syntax tree
RECURSIVE BinaryOps(_)
BinaryOps(node) ==
  IF node.type = "BinaryOp" THEN BinaryOps(node.left) + BinaryOps(node.right) + 1
  ELSE IF node.type = "UnaryOp" THEN BinaryOps(node.operand)
  ELSE 0

\* the descriptions of the operation steps of a tree in post-order: those
\* of the left operand, those of the right operand, then the node's own
\* step with the values of its operands and its result
RECURSIVE PostOrder(_)
PostOrder(node) ==
  IF node.type = "BinaryOp"
  THEN PostOrder(node.left) \o PostOrder(node.right)
       \o << <<OpName(node.operator), ": ">> \o FToString(EvaluateNode(node.left).val)
              \o <<" ", node.operator, " ">> \o FToString(EvaluateNode(node.right).val)
              \o <<" = ">> \o FToString(EvaluateNode(node).val) >>
  ELSE IF node.type = "UnaryOp" THEN PostOrder(node.operand)
  ELSE <<>>

IsOperationStep(step) == Head(step.description) \in {"Add", "Subtract", "Multiply", "Divide", "Power"}

\* the descriptions of the operation steps of a Solution, in order
OperationSteps(solution) ==
  LET ops == SelectSeq(solution.steps, IsOperationStep)
  IN [k \in 1..Len(ops) |-> ops[k].description]

\* the call returned a Solution that is not the error Solution
Succeeded == outcome.kind = "ok" /\ outcome.val.result.value # <<"Error">>

\* C26: in every successful evaluateArithmetic call the operation steps
\* (Add, Subtract, Multiply, Divide, Power) are as many as the BinaryOp
\* nodes of the parsed tree and come in post-order, each showing the two
\* evaluated operands and the result; a unary minus emits no step.
C26_PostOrderSteps ==
  (ArithmeticReturned /\ Succeeded) =>
    LET ast == Parse(input).val
    IN /\ Len(OperationSteps(outcome.val)) = BinaryOps(ast)
       /\ OperationSteps(outcome.val) = PostOrder(ast)

C26_Witness ==
  /\ ArithmeticReturned
  /\ Succeeded
  /\ input = DividePowerText(2, 2, 2)
  /\ OperationSteps(outcome.val) =
       << <<"Power", ": ", "2", " ", "^", " ", "2", " = ", "4">>,
          <<"Divide", ": ", "2", " ", "/", " ", "4", " = ", "1", "/", "2">> >>

\* a sum of two negated numbers has the one step of its addition
C26_WitnessUnaryMinus ==
  /\ ArithmeticReturned
  /\ Succeeded
  /\ input = NegatedText(1, "+", 2)
  /\ Parse(input).val = BinaryOp("+", UnaryOp("-", NumberNode(Frac(1, 1))), UnaryOp("-", NumberNode(Frac(2, 1))))
  /\ OperationSteps(outcome.val) = << <<"Add", ": ", "-", "1", " ", "+", " ", "-", "2", " = ", "-", "3">> >>

\* the step that gives the least common denominator of two denominators
LcdStep(d1, d2) ==
  <<"Find common denominator: LCD(">> \o NumToStr(d1) \o <<", ">> \o NumToStr(d2) \o <<") = ">>
  \o NumToStr((d1 * d2) \div Divisor(d1, d2))

\* the index of the first step with the description, or 0
StepIndex(steps, description) ==
  IF HasStep(steps, description)
  THEN CHOOSE i \in 1..Len(steps) :
         steps[i].description = description /\ \A j \in 1..(i - 1) : steps[j].description # description
  ELSE 0

\* C28: addFractions and subtractFractions return the exact reduced result
\* of a + b (respectively a - b) and, whenever the two denominators
\* differ, narrate the common-denominator derivation (the step giving the
\* least common denominator, then the conversion step) before the result
\* step.
C28_PairwiseNarration ==
  (pc = "done" /\ entry \in {"addFractions", "subtractFractions"}) =>
    LET a == acc.val
        b == operand
        exact == ExactResult(IF entry = "addFractions" THEN "add" ELSE "subtract", a, b)
        steps == outcome.val.steps
        lcd == StepIndex(steps, LcdStep(a.denominator, b.denominator))
        convert == StepIndex(steps, <<"Convert fractions to common denominator">>)
    IN /\ outcome.kind = "ok"
       /\ outcome.val.result.value = ReducedText(exact[1], exact[2])
       /\ a.denominator # b.denominator =>
            /\ 0 < lcd
            /\ lcd < convert
            /\ convert < Len(steps)
            /\ Head(steps[Len(steps)].description) = "Result: "

\* C27: in every Solution returned by an entry point of the solver (solve,
\* simplifyFraction, evaluateArithmetic, solveLinearEquation, addFractions,
\* subtractFractions) the i-th step has stepNumber i: the steps are
\* numbered consecutively from 1 in the order in which they were appended.
C27_StepNumbers ==
  (/\ pc = "done"
   /\ entry \in {"solve", "simplifyFraction", "evaluateArithmetic", "solveLinearEquation",
                  "addFractions", "subtractFractions"}
   /\ outcome.kind = "ok")
    => \A i \in 1..Len(outcome.val.steps) : outcome.val.steps[i].stepNumber = i

\* solveLinearEquation on "2x + 1 = 2" returns four steps numbered 1 to 4
C27_Witness ==
  /\ LinearReturned
  /\ input = <<"2", "x", " ", "+", " ", "1", " ", "=", " ", "2">>
  /\ outcome.kind = "ok"
  /\ Len(outcome.val.steps) = 4
  /\ outcome.val.steps[4] = [description |-> <<"Solution: ", "x", " = ", "1", "/", "2">>, stepNumber |-> 4]

\* the tokens end with an EOF token and have none before
EndsWithEof(tokens) ==
  /\ Len(tokens) >= 1
  /\ \A i \in 1..Len(tokens) : tokens[i].type = "EOF" <=> i = Len(tokens)

\* C29: Lexer.tokenize terminates on every input text: every iteration of
\* its loop consumes at least one character (unrecognized characters are
\* skipped, not reported), so that the call eventually comes back, and
\* the token sequence it returns ends with an EOF token and contains no
\* EOF token at an earlier position.
C29_TokenizeTerminates ==
  /\ <>(lexer.pc \in {"returned", "threw"})
  /\ [](lexer.pc = "returned" => EndsWithEof(lexer.tokens))
  /\ []((lexer.pc = "loop" /\ lexer.tokens # <<>>) => \A i \in 1..Len(lexer.tokens) : lexer.tokens[i].type # "EOF")
  /\ [][(lexer.pc = "loop" /\ lexer'.pc = "loop") => lexer'.pos > lexer.pos]_vars
  /\ [][(lexer.pc = "loop" /\ At(lexer.input, lexer.pos) \in Unrecognized)
         => (lexer'.pc = "loop" /\ lexer'.pos = lexer.pos + 1 /\ lexer'.tokens = lexer.tokens)]_vars

\* the lexer skipped the unrecognized character '?' between two numbers and
\* returned
C29_Witness ==
  /\ lexer.pc = "returned"
  /\ lexer.input = <<"1", "?", "2">>
  /\ lexer.pos = 4
  /\ lexer.tokens = <<Tok("NUMBER", Frac(1, 1)), Tok("NUMBER", Frac(2, 1)), Tok("EOF", "null")>>

\* the Fraction of a solution field
SolutionFraction(json) == Frac(json.numerator, json.denominator)

\* both sides of the equation have the same value once the variable is
\* bound to the Fraction v
Satisfies(ast, variable, v) ==
  LET left == EvaluateNodeIn(ast.left, variable :> v)
      right == EvaluateNodeIn(ast.right, variable :> v)
  IN /\ IsOk(left) /\ IsOk(right)
     /\ left.val.numerator = right.val.numerator
     /\ left.val.denominator = right.val.denominator

\* C30: whenever solveLinearEquation returns a solution 'x = v' for an
\* equation, binding the variable to v makes both sides of the parsed
\* equation evaluate to the same Fraction (no term with the variable was
\* left out when v was computed).
C30_SolutionSatisfies ==
  (LinearReturned /\ outcome.kind = "ok" /\ "solution" \in DOMAIN outcome.val) =>
    Satisfies(Parse(input).val, outcome.val.variable, SolutionFraction(outcome.val.solution))

=============================================================================
